---- MODULE Spec2Model ----
(***************************************************************************)
(* A model of the MTG portfolio dashboard: the Scryfall payload cache      *)
(* (scripts/_shared.py), the SQLite snapshot ledger                        *)
(* (scripts/snapshot_prices.py and the dev_* tools), and the valuation,    *)
(* mover and time-series computations (scripts/dashboard_data.py,          *)
(* scripts/movers.py).                                                     *)
(*                                                                         *)
(* Conventions.  An optional value (Python None, SQL NULL, pandas NaN) is  *)
(* the empty sequence <<>>, a present value v is <<v>>.  Text is a string  *)
(* or a sequence of one-character strings where the code edits it          *)
(* character by character.  Money is an integer number of price units.     *)
(***************************************************************************)
EXTENDS Integers, Sequences, FiniteSets, TLC

VARIABLES
    cache,      \* data/cache/scryfall: file name -> content of the file
    now,        \* time.time(), in seconds
    table,      \* TRUE once the price_snapshots table exists in mtg_prices.sqlite
    rows,       \* the committed rows of price_snapshots
    collection,      \* data/collection.csv as load_collection returns it: a sequence of rows
    result      \* what the last operation was given and what it returned or raised

vars == <<cache, now, table, rows, collection, result>>

-----------------------------------------------------------------------------
(* Bounds of the model *)

\* the clock advances at most this many ticks
MaxTicks == 2

-----------------------------------------------------------------------------
(* Optional values *)

Null == <<>>

Some(v) == <<v>>

IsNull(x) == x = <<>>

Val(x) == x[1]

-----------------------------------------------------------------------------
(* Time *)

\* _shared.py:13
CACHE_TTL_HOURS == 12

\* _shared.py:77, seconds in an hour
SecondsPerHour == 3600

\* one tick of the model clock: the cache TTL of the program, in seconds
TickSeconds == CACHE_TTL_HOURS * SecondsPerHour

MaxClock == MaxTicks * TickSeconds

-----------------------------------------------------------------------------
(* Printing keys and cache file names: _shared.py PrintingKey, _cache_filename *)

PrintingKey(set_code, collector_number) ==
    [set_code |-> set_code, collector_number |-> collector_number]

\* str.replace(old, new) for a one-character old and a new of any length
RECURSIVE Replace(_, _, _)
Replace(s, old, new) ==
    IF s = <<>> THEN <<>>
    ELSE (IF Head(s) = old THEN new ELSE <<Head(s)>>) \o Replace(Tail(s), old, new)

_cache_filename(key) ==
    LET safe_cn == Replace(Replace(Replace(key.collector_number,
                        "/", <<"_">>), "\\", <<"_">>), " ", <<>>)
    IN  key.set_code \o <<"_", "_">> \o safe_cn \o <<".json">>

\* The printings of the model.  "1/2" and "1_2" are distinct collector numbers
\* that _cache_filename maps to one file name.
Keys ==
    { PrintingKey(<<"a">>, <<"1">>),
      PrintingKey(<<"a">>, <<"1", "/", "2">>),
      PrintingKey(<<"a">>, <<"1", "_", "2">>) }

\* cache_dir / _cache_filename(key), worked out once for each key
PathOf == [k \in Keys |-> _cache_filename(k)]

Files == { PathOf[k] : k \in Keys }

-----------------------------------------------------------------------------
(* The catalog service: what GET /cards/{set}/{collector_number} answers *)

\* The id, name, rarity and type line the catalog holds for a printing.  A type
\* line is a sequence of words and separators; "EMDASH" is the character U+2014.
IdOf(key) ==
    CASE key.collector_number = <<"1">> -> "id-1"
      [] key.collector_number = <<"1", "/", "2">> -> "id-1/2"
      [] OTHER -> "id-1_2"

NameOf(key) ==
    CASE key.collector_number = <<"1">> -> "Golem"
      [] key.collector_number = <<"1", "/", "2">> -> "Pathway"
      [] OTHER -> "Isle"

RarityOf(key) ==
    CASE key.collector_number = <<"1">> -> "rare"
      [] key.collector_number = <<"1", "/", "2">> -> "common"
      [] OTHER -> "None"

TypeLineOf(key) ==
    CASE key.collector_number = <<"1">> -> <<"Artifact", " ", "Creature", " ", "EMDASH", " ", "Golem">>
      [] key.collector_number = <<"1", "/", "2">> -> <<"Land", " ", "//", " ", "Land">>
      [] OTHER -> <<>>

\* The texts of the price fields "usd" and "usd_foil" of an answer, and the
\* number float() makes of each.  "None" is a JSON null.
PriceTexts == {"None", "", "null", "0", "1", "2", "4"}

float(x) == CASE x = "0" -> 0 [] x = "1" -> 1 [] x = "2" -> 2 [] x = "4" -> 4

\* The (usd, usd_foil) pairs the catalog quotes for a printing in this model:
\* printing 1 in both finishes or in foil only, printing 1/2 in nonfoil only or
\* with no price, printing 1_2 in both finishes.
Quotes(key) ==
    CASE key.collector_number = <<"1">> -> { <<"1", "2">>, <<"None", "4">> }
      [] key.collector_number = <<"1", "/", "2">> -> { <<"2", "None">>, <<"None", "None">> }
      [] OTHER -> { <<"4", "1">> }

\* A payload as r.json() returns it: no "_fetched_at_epoch" key yet.
Card(key, usd, usd_foil) ==
    [ id |-> IdOf(key), name |-> NameOf(key), rarity |-> RarityOf(key),
      type_line |-> TypeLineOf(key), has_prices |-> TRUE,
      usd |-> usd, usd_foil |-> usd_foil, _fetched_at_epoch |-> Null ]

\* A payload that has no "prices" object (or a null one)
CardWithoutPrices(key) ==
    [Card(key, "None", "None") EXCEPT !.has_prices = FALSE]

\* What one lookup of key can give: a payload, or Null when the request
\* raises (raise_for_status, timeout).
Answers(key) == { Some(Card(key, p[1], p[2])) : p \in Quotes(key) } \cup {Null}

-----------------------------------------------------------------------------
(* The payload cache: _shared.py cache_get, cache_set, fetch_scryfall_card_cached *)

Absent == [kind |-> "absent"]

\* a file whose text json.loads rejects (a write cut short)
Garbage == [kind |-> "garbage"]

\* a file whose bytes read_text cannot decode as UTF-8
Unreadable == [kind |-> "unreadable"]

\* a file that holds valid JSON that is no object: a list, a number, a string, null
NonObject == [kind |-> "nonobject"]

Object(data) == [kind |-> "object", data |-> data]

\* cache_get line 72: data.get on a value that json.loads returned and that is
\* no dict raises AttributeError, outside the try of lines 67-70
GetRaises(c, key) == c[PathOf[key]].kind = "nonobject"

\* cache_get with the age test written >= : a record of age exactly ttl is stale
cache_get_stale_at_ttl(c, key, ttl_hours, t) ==
    LET f == c[PathOf[key]]
    IN  IF f.kind = "absent" THEN Null
        ELSE IF f.kind # "object" THEN Null
        ELSE IF IsNull(f.data._fetched_at_epoch) THEN Null
        ELSE IF t - Val(f.data._fetched_at_epoch) >= ttl_hours * SecondsPerHour THEN Null
        ELSE Some(f.data)

cache_get(c, key, ttl_hours, t) ==
    LET f == c[PathOf[key]]
    IN  IF f.kind = "absent" THEN Null
        ELSE IF f.kind # "object" THEN Null
        ELSE IF IsNull(f.data._fetched_at_epoch) THEN Null
        ELSE IF t - Val(f.data._fetched_at_epoch) > ttl_hours * SecondsPerHour THEN Null
        ELSE Some(f.data)

cache_set(c, key, card, t) ==
    [c EXCEPT ![PathOf[key]] =
        Object([card EXCEPT !._fetched_at_epoch = Some(t)])]

\* a resolve that removes the record it found stale when the lookup fails
fetch_scryfall_card_cached_dropping_stale(c, key, ttl_hours, t, answer) ==
    LET cached == cache_get(c, key, ttl_hours, t)
    IN  IF GetRaises(c, key)
        THEN [cache |-> c, raised |-> TRUE, card |-> Null,
              note |-> "AttributeError", lookups |-> 0]
        ELSE IF ~IsNull(cached)
        THEN [cache |-> c, raised |-> FALSE, card |-> cached,
              note |-> "cache_hit", lookups |-> 0]
        ELSE IF IsNull(answer)
        THEN [cache |-> [c EXCEPT ![PathOf[key]] = Absent], raised |-> TRUE,
              card |-> Null, note |-> "HTTPError", lookups |-> 1]
        ELSE [cache |-> cache_set(c, key, Val(answer), t), raised |-> FALSE,
              card |-> answer, note |-> "cache_miss_fetched", lookups |-> 1]

\* answer is what the catalog gives if it is asked.  The value is the cache
\* afterwards, whether the call raised, the (card, note) it returned, and the
\* number of remote lookups it issued.
fetch_scryfall_card_cached(c, key, ttl_hours, t, answer) ==
    LET cached == cache_get(c, key, ttl_hours, t)
    IN  IF GetRaises(c, key)
        THEN [cache |-> c, raised |-> TRUE, card |-> Null,
              note |-> "AttributeError", lookups |-> 0]
        ELSE IF ~IsNull(cached)
        THEN [cache |-> c, raised |-> FALSE, card |-> cached,
              note |-> "cache_hit", lookups |-> 0]
        ELSE IF IsNull(answer)
        THEN [cache |-> c, raised |-> TRUE, card |-> Null,
              note |-> "HTTPError", lookups |-> 1]
        ELSE [cache |-> cache_set(c, key, Val(answer), t), raised |-> FALSE,
              card |-> answer, note |-> "cache_miss_fetched", lookups |-> 1]

-----------------------------------------------------------------------------
(* The finish rule: _shared.py choose_unit_price_usd *)

Finishes == {"foil", "nonfoil"}

\* prices.get(field), prices being card.get("prices") or {}
PricesGet(card, field) ==
    IF ~card.has_prices THEN "None"
    ELSE IF field = "usd" THEN card.usd ELSE card.usd_foil

to_float(x) == IF x \in {"None", "", "null"} THEN Null ELSE Some(float(x))

\* choose_unit_price_usd that prefers the nonfoil field whatever the finish
choose_unit_price_usd_ignoring_finish(card, finish) ==
    LET usd == to_float(PricesGet(card, "usd"))
        usd_foil == to_float(PricesGet(card, "usd_foil"))
    IN  IF ~IsNull(usd) THEN <<usd, "ok">>
        ELSE IF ~IsNull(usd_foil) THEN <<usd_foil, "fallback_used:usd_foil">>
        ELSE <<Null, "missing_price_usd">>

\* the value is the pair (unit price, note)
choose_unit_price_usd(card, finish) ==
    LET usd == to_float(PricesGet(card, "usd"))
        usd_foil == to_float(PricesGet(card, "usd_foil"))
    IN  IF finish = "foil"
        THEN IF ~IsNull(usd_foil) THEN <<usd_foil, "ok">>
             ELSE IF ~IsNull(usd) THEN <<usd, "fallback_used:usd">>
             ELSE <<Null, "missing_price_usd">>
        ELSE IF ~IsNull(usd) THEN <<usd, "ok">>
             ELSE IF ~IsNull(usd_foil) THEN <<usd_foil, "fallback_used:usd_foil">>
             ELSE <<Null, "missing_price_usd">>

-----------------------------------------------------------------------------
(* The snapshot ledger: table price_snapshots of mtg_prices.sqlite *)

SecondsPerDay == 24 * SecondsPerHour

\* date.today() at time t, as a day number; isoformat() orders as the day number does
Today(t) == t \div SecondsPerDay

\* a key of the item and the finish, without the date
SameItemAndFinish(r1, r2) ==
    /\ r1.scryfall_id = r2.scryfall_id
    /\ r1.finish = r2.finish

\* PRIMARY KEY (snapshot_date, scryfall_id, finish)
SamePrimaryKey(r1, r2) ==
    /\ r1.snapshot_date = r2.snapshot_date
    /\ r1.scryfall_id = r2.scryfall_id
    /\ r1.finish = r2.finish

\* INSERT that leaves the row of the same key in place beside the new one
InsertKeepingOld(tbl, row) == tbl \cup {row}

\* INSERT OR REPLACE INTO price_snapshots of one row
InsertOrReplace(tbl, row) ==
    { r \in tbl : ~SamePrimaryKey(r, row) } \cup {row}

\* INSERT OR REPLACE of a set of rows, no two of them with the same key
InsertOrReplaceAll(tbl, new) ==
    { r \in tbl : \A n \in new : ~SamePrimaryKey(r, n) } \cup new

SnapshotRow(snapshot_date, card, set_code, collector_number, finish, usd) ==
    [ snapshot_date |-> snapshot_date,
      scryfall_id |-> card.id,
      set_code |-> set_code,
      collector_number |-> collector_number,
      finish |-> finish,
      name |-> card.name,
      rarity |-> IF card.rarity = "None" THEN "unknown" ELSE card.rarity,
      type_line |-> card.type_line,
      usd |-> usd,
      fetched_at_epoch |-> card._fetched_at_epoch ]

upsert_snapshot(tbl, snapshot_date, card, set_code, collector_number, finish, usd) ==
    InsertOrReplace(tbl,
        SnapshotRow(snapshot_date, card, set_code, collector_number, finish, usd))

\* SELECT MAX(snapshot_date): Null when the table has no rows
MaxDate(tbl) ==
    IF tbl = {} THEN Null
    ELSE Some(CHOOSE d \in { r.snapshot_date : r \in tbl } :
                \A r \in tbl : r.snapshot_date <= d)

\* a latest date that answers day 0 for a table with no rows
latest_snapshot_date_or_epoch(tbl) == IF tbl = {} THEN Some(0) ELSE MaxDate(tbl)

\* _latest_snapshot_date and its copies: the value is Null when the call raises
latest_snapshot_date(tbl) == MaxDate(tbl)

\* a baseline that is the earliest stored date on or before the target date
snapshot_on_or_before_earliest(tbl, target_date) ==
    LET dates == { r.snapshot_date : r \in tbl }
        upto == { d \in dates : d <= target_date }
    IN  IF upto = {} THEN Null
        ELSE Some(CHOOSE d \in upto : \A e \in upto : d <= e)

snapshot_on_or_before(tbl, target_date) ==
    MaxDate({ r \in tbl : r.snapshot_date <= target_date })

snapshot_exists(tbl, snap_date) == \E r \in tbl : r.snapshot_date = snap_date

RowsOn(tbl, snap_date) == { r \in tbl : r.snapshot_date = snap_date }

clone_snapshot(tbl, src_date, dst_date) ==
    InsertOrReplaceAll(tbl,
        { [r EXCEPT !.snapshot_date = dst_date] : r \in RowsOn(tbl, src_date) })

apply_override(tbl, snap_date, scryfall_id, finish, new_usd) ==
    { IF /\ r.snapshot_date = snap_date
         /\ r.scryfall_id = scryfall_id
         /\ r.finish = finish
      THEN [r EXCEPT !.usd = Some(new_usd)]
      ELSE r : r \in tbl }

-----------------------------------------------------------------------------
(* The collection: the DataFrame load_collection returns for collection.csv *)

Position(key, finish, qty) ==
    [ set |-> key.set_code, collector_number |-> key.collector_number,
      finish |-> finish, qty |-> qty ]

KeyOf(row) == PrintingKey(row.set, row.collector_number)

\* DataFrame.drop_duplicates(): the first occurrence of each row, in order
RECURSIVE DropDuplicates(_)
DropDuplicates(seq) ==
    IF seq = <<>> THEN <<>>
    ELSE LET init == DropDuplicates(SubSeq(seq, 1, Len(seq) - 1))
             last == seq[Len(seq)]
         IN  IF \E i \in 1..Len(init) : init[i] = last THEN init
             ELSE Append(init, last)

\* a sequence given as a function on 1..n, written out element by element
Listed(f) == f \o <<>>

\* df[cols]: the columns cols of every row
Columns(df, cols) == Listed([i \in 1..Len(df) |-> [c \in cols |-> df[i][c]]])

-----------------------------------------------------------------------------
(* The snapshot job: snapshot_prices.py main *)

\* the clock standing still through n steps of a run
NoWaits(n) == [i \in 1..n |-> 0]

\* The loop of main over the distinct (set, collector_number, finish) rows.
\* tbl is the table as the job's open transaction sees it; waits[i] is the time
\* that passes before step i reads the clock.  resolves lists the key of every
\* call of fetch_scryfall_card_cached, lookups the key of every remote request.
RECURSIVE SnapshotLoop(_, _, _, _, _, _, _)
SnapshotLoop(todo, c, tbl, t, waits, snap_date, answers) ==
    IF todo = <<>>
    THEN [cache |-> c, rows |-> tbl, raised |-> FALSE, resolves |-> <<>>, lookups |-> <<>>]
    ELSE LET row == Head(todo)
             key == PrintingKey(row.set, row.collector_number)
             at == t + Head(waits)
             After(rest, asked) ==
                [rest EXCEPT !.resolves = <<key>> \o @, !.lookups = asked \o @]
             Fetched(r, asked) ==
                IF r.raised
                THEN [cache |-> r.cache, rows |-> tbl, raised |-> TRUE,
                      resolves |-> <<key>>, lookups |-> asked]
                ELSE After(SnapshotLoop(Tail(todo), r.cache,
                              upsert_snapshot(tbl, snap_date, Val(r.card), key.set_code,
                                  key.collector_number, row.finish,
                                  choose_unit_price_usd(Val(r.card), row.finish)[1]),
                              at, Tail(waits), snap_date, answers),
                           asked)
             Asked(r) == Fetched(r, IF r.lookups = 1 THEN <<key>> ELSE <<>>)
         IN  Asked(fetch_scryfall_card_cached(c, key, CACHE_TTL_HOURS, at, answers[key]))

\* a job whose every upsert is committed as it is made
snapshot_prices_main_autocommit(c, tbl, df, t, waits, answers) ==
    LET snap_date == Today(t)
        todo == DropDuplicates(Columns(df, {"set", "collector_number", "finish"}))
        Done(run) ==
            [ cache |-> run.cache,
              rows |-> run.rows,
              raised |-> run.raised,
              snap_date |-> snap_date,
              resolves |-> run.resolves,
              lookups |-> run.lookups ]
    IN  Done(SnapshotLoop(todo, c, tbl, t, waits, snap_date, answers))

\* main(): the value is the cache and the committed rows afterwards.  The rows
\* are committed once, after the loop; a lookup that raises ends the run at
\* conn.close() with nothing committed but the schema.
snapshot_prices_main(c, tbl, df, t, waits, answers) ==
    LET snap_date == Today(t)
        todo == DropDuplicates(Columns(df, {"set", "collector_number", "finish"}))
        Done(run) ==
            [ cache |-> run.cache,
              rows |-> IF run.raised THEN tbl ELSE run.rows,
              raised |-> run.raised,
              snap_date |-> snap_date,
              resolves |-> run.resolves,
              lookups |-> run.lookups ]
    IN  Done(SnapshotLoop(todo, c, tbl, t, waits, snap_date, answers))

-----------------------------------------------------------------------------
(* The test tools: dev_clone_snapshot.py main, dev_backfill_history.py main *)

\* ans is the answer to the override prompt; the value is the committed rows
\* afterwards and whether the tool raised
dev_clone_snapshot_main(has_table, tbl, ans, scryfall_id, finish, new_usd) ==
    LET latest == latest_snapshot_date(tbl)
    IN  IF ~has_table \/ IsNull(latest) THEN [rows |-> tbl, raised |-> TRUE]
        ELSE LET dst == Val(latest) - 1
                 first == IF snapshot_exists(tbl, dst) THEN tbl
                          ELSE clone_snapshot(tbl, Val(latest), dst)
                 second == clone_snapshot(first, Val(latest), dst)
             IN  [ rows |-> IF ans = "y"
                            THEN apply_override(second, dst, scryfall_id, finish, new_usd)
                            ELSE second,
                   raised |-> FALSE ]

\* the prices of the model that a price can walk to in one day:
\* round(max(0.01, usd * (1 + noise)), 2) is a positive price
PositivePrices == {1, 2, 4}

\* apply_random_walk: walk gives, for each row, the price the noise leads to
apply_random_walk(rws, walk) ==
    { IF IsNull(r.usd) THEN r ELSE [r EXCEPT !.usd = Some(walk[r.scryfall_id, r.finish])]
        : r \in rws }

\* the loop of main for i in i..days_back; walks[i] is the noise of day i
RECURSIVE BackfillLoop(_, _, _, _, _, _)
BackfillLoop(tbl, current_rows, latest, i, days_back, walks) ==
    IF i > days_back THEN tbl
    ELSE LET d == latest - i
         IN  IF snapshot_exists(tbl, d)
             THEN BackfillLoop(tbl, current_rows, latest, i + 1, days_back, walks)
             ELSE LET moved == apply_random_walk(current_rows, walks[i])
                  IN  BackfillLoop(
                          InsertOrReplaceAll(tbl,
                              { [r EXCEPT !.snapshot_date = d] : r \in moved }),
                          moved, latest, i + 1, days_back, walks)

dev_backfill_history_main(has_table, tbl, days_back, walks) ==
    LET latest == latest_snapshot_date(tbl)
    IN  IF ~has_table \/ IsNull(latest) THEN [rows |-> tbl, raised |-> TRUE]
        ELSE [ rows |-> BackfillLoop(tbl, RowsOn(tbl, Val(latest)), Val(latest),
                                     1, days_back, walks),
               raised |-> FALSE ]

-----------------------------------------------------------------------------
(* pandas: the DataFrame operations the views use.  A DataFrame is a       *)
(* sequence of records, a missing value (None, NaN) is Null.               *)

Min(a, b) == IF a <= b THEN a ELSE b

\* DataFrame.head(n), n >= 0
head(df, n) == SubSeq(df, 1, Min(n, Len(df)))

\* the sum of the values present in a sequence of optional integers
RECURSIVE SumPresent(_)
SumPresent(xs) ==
    IF xs = <<>> THEN 0
    ELSE (IF IsNull(Head(xs)) THEN 0 ELSE Val(Head(xs))) + SumPresent(Tail(xs))

\* df[col].sum(skipna=True), col a column of optional integers
SumOf(df, col) == SumPresent(Listed([i \in 1..Len(df) |-> df[i][col]]))

\* a count that is the number of rows, whatever their quantities
CountRows(df) == Len(df)

\* df["qty"].sum()
SumQty(df) == SumPresent(Listed([i \in 1..Len(df) |-> Some(df[i].qty)]))

RECURSIVE Concat(_)
Concat(seqs) == IF seqs = <<>> THEN <<>> ELSE Head(seqs) \o Concat(Tail(seqs))

\* the rows of a set in the order a SELECT without ORDER BY returns them
RECURSIVE SetToSeq(_)
SetToSeq(set) ==
    IF set = {} THEN <<>>
    ELSE LET x == CHOOSE y \in set : TRUE
         IN  <<x>> \o SetToSeq(set \ {x})

\* left.merge(right, on=on, how="inner"): the rows of left in order, each joined
\* to every row of right that agrees with it on the columns on; the joined row
\* has the columns of both
merge(left, right, on) ==
    Concat(Listed([ i \in 1..Len(left) |->
        LET hits == SelectSeq(right, LAMBDA r : \A c \in on : r[c] = left[i][c])
        IN  Listed([j \in 1..Len(hits) |-> left[i] @@ hits[j]]) ]))

\* the orders a sort of the default kind ("quicksort", which is not stable) can
\* leave rows of equal rank in: the order they had, or the reverse of it
TieOrders == {"kept", "reversed"}

\* a sort: precedes[i, j] tells whether row i ranks strictly ahead of row j; row
\* i goes behind the rows that precede it and behind the rows of its own rank
\* that the tie order ties puts first
SortBy(df, precedes, ties) ==
    LET n == Len(df)
        Ahead(i) == { j \in 1..n :
                        \/ precedes[j, i]
                        \/ /\ ~precedes[i, j]
                           /\ IF ties = "kept" THEN j < i ELSE j > i }
    IN  Listed([ p \in 1..n |-> df[CHOOSE i \in 1..n : Cardinality(Ahead(i)) = p - 1] ])

\* DataFrame.sort_values(col, ascending=...) on a column of optional integers:
\* missing values last
sort_values(df, col, ascending, ties) ==
    SortBy(df, [ i \in 1..Len(df), j \in 1..Len(df) |->
        IF IsNull(df[i][col]) THEN FALSE
        ELSE IF IsNull(df[j][col]) THEN TRUE
        ELSE IF ascending THEN Val(df[i][col]) < Val(df[j][col])
        ELSE Val(df[i][col]) > Val(df[j][col]) ], ties)

\* the unit price taken for the position value, whatever the quantity
TimesOne(usd, qty) == usd

\* usd * qty: a missing price gives a missing value
Times(usd, qty) == IF IsNull(usd) THEN Null ELSE Some(Val(usd) * qty)

-----------------------------------------------------------------------------
(* Live valuation: dashboard_data.py _compute_live_owned *)

\* owned as get_dashboard_data makes it of df: column "set" renamed set_code
OwnedOf(df) ==
    Listed([ i \in 1..Len(df) |->
        [ set_code |-> df[i].set, collector_number |-> df[i].collector_number,
          finish |-> df[i].finish, qty |-> df[i].qty ] ])

\* the loop over the unique printings: card_cache is a set of <<key, card>>;
\* waits[i] is the time that passes before step i reads the clock
RECURSIVE FetchUnique(_, _, _, _, _, _, _)
FetchUnique(todo, c, card_cache, ttl_hours, t, waits, answers) ==
    IF todo = <<>>
    THEN [cache |-> c, card_cache |-> card_cache, raised |-> FALSE,
          resolves |-> <<>>, lookups |-> <<>>]
    ELSE LET key == PrintingKey(Head(todo).set_code, Head(todo).collector_number)
             at == t + Head(waits)
             After(rest, asked) ==
                [rest EXCEPT !.resolves = <<key>> \o @, !.lookups = asked \o @]
             Fetched(r, asked) ==
                IF r.raised
                THEN [cache |-> r.cache, card_cache |-> card_cache, raised |-> TRUE,
                      resolves |-> <<key>>, lookups |-> asked]
                ELSE After(FetchUnique(Tail(todo), r.cache,
                              { e \in card_cache : e[1] # key } \cup { <<key, Val(r.card)>> },
                              ttl_hours, at, Tail(waits), answers),
                           asked)
             Asked(r) == Fetched(r, IF r.lookups = 1 THEN <<key>> ELSE <<>>)
         IN  Asked(fetch_scryfall_card_cached(c, key, ttl_hours, at, answers[key]))

\* the value is the cache afterwards, whether a lookup raised, and the frame out
_compute_live_owned(owned, c, ttl_hours, t, waits, answers) ==
    LET unique == DropDuplicates(Columns(owned, {"set_code", "collector_number"}))
        CardFor(card_cache, r) ==
            (CHOOSE e \in card_cache :
                e[1] = PrintingKey(r.set_code, r.collector_number))[2]
        Priced(r, card, unit) ==
            [ set_code |-> r.set_code, collector_number |-> r.collector_number,
              finish |-> r.finish, qty |-> r.qty,
              name |-> card.name, scryfall_id |-> card.id,
              rarity |-> IF card.rarity = "None" THEN "unknown" ELSE card.rarity,
              type_line |-> card.type_line,
              usd |-> unit, position_value_usd |-> Times(unit, r.qty) ]
        Enriched(r, card) == Priced(r, card, choose_unit_price_usd(card, r.finish)[1])
        Out(f) ==
            [ cache |-> f.cache, raised |-> f.raised,
              resolves |-> f.resolves, lookups |-> f.lookups,
              out |-> IF f.raised THEN <<>>
                      ELSE Listed([ i \in 1..Len(owned) |->
                              Enriched(owned[i], CardFor(f.card_cache, owned[i])) ]) ]
    IN  Out(FetchUnique(unique, c, {}, ttl_hours, t, waits, answers))

-----------------------------------------------------------------------------
(* Snapshot valuation: dashboard_data.py get_dashboard_data, lines 160-177 *)

\* the join columns without the finish
OnSetCollector == {"set_code", "collector_number"}

\* on=["set_code", "collector_number", "finish"]
OnSetCollectorFinish == {"set_code", "collector_number", "finish"}

\* SELECT set_code, collector_number, finish, scryfall_id, name, rarity,
\* type_line, usd FROM price_snapshots WHERE snapshot_date = ?
LatestRows(tbl, latest) ==
    Columns(SetToSeq(RowsOn(tbl, latest)),
            {"set_code", "collector_number", "finish", "scryfall_id", "name",
             "rarity", "type_line", "usd"})

\* owned.merge(latest_rows, on=[set_code, collector_number, finish], how="inner")
\* and the column position_value_usd
SnapshotOwned(owned, tbl, latest) ==
    LET merged == merge(owned, LatestRows(tbl, latest), OnSetCollectorFinish)
    IN  Listed([ i \in 1..Len(merged) |->
            [ set_code |-> merged[i].set_code,
              collector_number |-> merged[i].collector_number,
              finish |-> merged[i].finish, qty |-> merged[i].qty,
              name |-> merged[i].name, scryfall_id |-> merged[i].scryfall_id,
              rarity |-> merged[i].rarity, type_line |-> merged[i].type_line,
              usd |-> merged[i].usd,
              position_value_usd |-> Times(merged[i].usd, merged[i].qty) ] ])

\* latest_owned.dropna(subset=["usd"]).sort_values("position_value_usd",
\* ascending=False).head(top_n)
TopHoldings(latest_owned, top_n, ties) ==
    head(sort_values(SelectSeq(latest_owned, LAMBDA r : ~IsNull(r.usd)),
                     "position_value_usd", FALSE, ties), top_n)

\* latest_owned["position_value_usd"].sum(skipna=True)
TotalValue(latest_owned) == SumOf(latest_owned, "position_value_usd")

-----------------------------------------------------------------------------
(* Movers: dashboard_data.py get_dashboard_data lines 226-242, movers.py   *)
(* main lines 106-120.  A float64 cell is a number, inf, -inf or NaN.      *)

Num(v) == [k |-> "num", v |-> v]

Inf == [k |-> "inf", v |-> 0]

NegInf == [k |-> "-inf", v |-> 0]

NaN == [k |-> "nan", v |-> 0]

\* a cell that holds None
Missing == [k |-> "null", v |-> 0]

\* x < y on float64 cells, neither of them NaN
Less(x, y) ==
    CASE x.k = "-inf" -> y.k # "-inf"
      [] x.k = "num" -> y.k = "inf" \/ (y.k = "num" /\ x.v < y.v)
      [] OTHER -> FALSE

IsNaN(x) == x.k = "nan"

Zero == Num(0)

\* float64 division a / b * 100.0 as numpy does it: x/0 is inf or -inf, 0/0 NaN.
\* The prices of the model divide 100, so the quotient is a whole number.
PercentOf(a, b) ==
    IF b # 0 THEN Num((a * 100) \div b)
    ELSE IF a > 0 THEN Inf
    ELSE IF a < 0 THEN NegInf
    ELSE NaN

\* the float64 cell of column col of a movers row; the model keeps delta_usd,
\* which is always a number, as an integer
Cell(m, col) == IF col = "delta_usd" THEN Num(m.delta_usd) ELSE m[col]

\* DataFrame.sort_values(col, ascending=...) on a float64 column: NaN last
sort_values_float(df, col, ascending, ties) ==
    SortBy(df, [ i \in 1..Len(df), j \in 1..Len(df) |->
        IF IsNaN(Cell(df[i], col)) THEN FALSE
        ELSE IF IsNaN(Cell(df[j], col)) THEN TRUE
        ELSE IF ascending THEN Less(Cell(df[i], col), Cell(df[j], col))
        ELSE Less(Cell(df[j], col), Cell(df[i], col)) ], ties)

\* SELECT scryfall_id, finish, usd AS usd_baseline ... WHERE snapshot_date = ?
BaselineRows(tbl, baseline) ==
    LET selected == SetToSeq(RowsOn(tbl, baseline))
    IN  Listed([ i \in 1..Len(selected) |->
            [ scryfall_id |-> selected[i].scryfall_id, finish |-> selected[i].finish,
              usd_baseline |-> selected[i].usd ] ])

\* latest_owned.merge(baseline_rows, on=["scryfall_id", "finish"], how="inner")
\* .dropna(subset=["usd", "usd_baseline"])
MoversJoin(latest_owned, baseline_rows) ==
    SelectSeq(merge(latest_owned, baseline_rows, {"scryfall_id", "finish"}),
              LAMBDA m : ~IsNull(m.usd) /\ ~IsNull(m.usd_baseline))

\* a movers row with its columns delta_usd and pct_change; usd and usd_baseline
\* are numbers from here on
WithChange(m, delta_usd, pct_change) ==
    [ name |-> m.name, finish |-> m.finish, qty |-> m.qty,
      set_code |-> m.set_code, collector_number |-> m.collector_number,
      scryfall_id |-> m.scryfall_id,
      usd |-> Val(m.usd), usd_baseline |-> Val(m.usd_baseline),
      delta_usd |-> delta_usd, pct_change |-> pct_change ]

\* get_dashboard_data lines 234-238: delta_usd and pct_change of each row; the
\* lambda gives None for a baseline of 0, which the column holds as a missing value
DashboardChange(movers) ==
    Listed([ i \in 1..Len(movers) |->
        LET m == movers[i]
            delta_usd == Val(m.usd) - Val(m.usd_baseline)
        IN  WithChange(m, delta_usd,
                IF Val(m.usd_baseline) # 0 THEN PercentOf(delta_usd, Val(m.usd_baseline))
                ELSE Missing) ])

\* movers.py lines 109-110: the float64 column arithmetic
MoversMainChange(movers) ==
    Listed([ i \in 1..Len(movers) |->
        LET m == movers[i]
            delta_usd == Val(m.usd) - Val(m.usd_baseline)
        IN  WithChange(m, delta_usd, PercentOf(delta_usd, Val(m.usd_baseline))) ])

\* get_dashboard_data lines 240-242
DashboardGainers(movers, top_n, ties) ==
    LET moved == SelectSeq(movers, LAMBDA m : m.delta_usd # 0)
    IN  head(sort_values_float(SelectSeq(moved, LAMBDA m : m.delta_usd > 0),
                               "delta_usd", FALSE, ties), top_n)

DashboardLosers(movers, top_n, ties) ==
    LET moved == SelectSeq(movers, LAMBDA m : m.delta_usd # 0)
    IN  head(sort_values_float(SelectSeq(moved, LAMBDA m : m.delta_usd < 0),
                               "delta_usd", TRUE, ties), top_n)

\* a sort column that is delta_usd whatever --sort says
SortColDelta(sort_mode) == "delta_usd"

\* movers.py line 112: sort_col
SortCol(sort_mode) == IF sort_mode = "abs" THEN "delta_usd" ELSE "pct_change"

\* movers.py lines 114-119
MoversMainGainers(movers, top_n, sort_mode, ties) ==
    LET sort_col == SortCol(sort_mode)
        moved == SelectSeq(movers, LAMBDA m : Cell(m, sort_col) # Zero)
        gainers_pool == SelectSeq(moved, LAMBDA m :
                            ~IsNaN(Cell(m, sort_col)) /\ Less(Zero, Cell(m, sort_col)))
    IN  head(sort_values_float(gainers_pool, sort_col, FALSE, ties), top_n)

\* movers.py lines 114-120
MoversMainLosers(movers, top_n, sort_mode, ties) ==
    LET sort_col == SortCol(sort_mode)
        moved == SelectSeq(movers, LAMBDA m : Cell(m, sort_col) # Zero)
        losers_pool == SelectSeq(moved, LAMBDA m :
                            ~IsNaN(Cell(m, sort_col)) /\ Less(Cell(m, sort_col), Zero))
    IN  head(sort_values_float(losers_pool, sort_col, TRUE, ties), top_n)

-----------------------------------------------------------------------------
(* Breakdowns: dashboard_data.py get_dashboard_data lines 195-221 *)

\* the group keys of the model in the order groupby sorts them (str order)
GroupKeyOrder ==
    << "//", "Artifact", "Creature", "Golem", "Land", "Unknown",
       "common", "rare", "unknown", "EMDASH" >>

\* df.groupby(by).agg(count=("qty", "sum"), value_usd=("position_value_usd",
\* "sum")).sort_values("value_usd", ascending=False)
Breakdown(df, by, ties) ==
    LET keys == SelectSeq(GroupKeyOrder,
                          LAMBDA k : \E i \in 1..Len(df) : df[i][by] = k)
        groups == Listed([ i \in 1..Len(keys) |->
                    LET members == SelectSeq(df, LAMBDA r : r[by] = keys[i])
                    IN  [ key |-> keys[i], count |-> SumQty(members),
                          value_usd |-> SumOf(members, "position_value_usd") ] ])
    IN  SortBy(groups, [ i \in 1..Len(groups), j \in 1..Len(groups) |->
                            groups[i].value_usd > groups[j].value_usd ], ties)

\* type_line.split(sep)[0]: the part of the text before the first sep
RECURSIVE SplitFirst(_, _)
SplitFirst(type_line, sep) ==
    IF type_line = <<>> \/ Head(type_line) = sep THEN <<>>
    ELSE <<Head(type_line)>> \o SplitFirst(Tail(type_line), sep)

\* [p.strip() for p in left.split() if p.strip()]: the words between whitespace
Words(left) == SelectSeq(left, LAMBDA p : p # " ")

\* type_buckets of dashboard_data.py: the words left of the text the code splits
\* on.  That text is the three characters U+00E2 U+20AC U+201D ("MOJIBAKE"
\* here), not the dash U+2014, so a dash and the words after it are words too.
type_buckets(type_line) ==
    LET parts == Words(SplitFirst(type_line, "MOJIBAKE"))
    IN  IF type_line = <<>> THEN <<"Unknown">>
        ELSE IF parts = <<>> THEN <<"Unknown">>
        ELSE parts

\* type_buckets of validate_csv_to_prices.py: the text is split on U+2014
validate_type_buckets(type_line) ==
    LET parts == Words(SplitFirst(type_line, "EMDASH"))
    IN  IF type_line = <<>> THEN <<"Unknown">>
        ELSE IF parts = <<>> THEN <<"Unknown">>
        ELSE parts

\* latest_owned with the column type_bucket, exploded
Exploded(latest_owned) ==
    Concat(Listed([ i \in 1..Len(latest_owned) |->
        LET buckets == type_buckets(latest_owned[i].type_line)
        IN  Listed([ j \in 1..Len(buckets) |->
                [ type_bucket |-> buckets[j], qty |-> latest_owned[i].qty,
                  position_value_usd |-> latest_owned[i].position_value_usd ] ]) ]))

-----------------------------------------------------------------------------
(* Time series: dashboard_data.py get_portfolio_timeseries *)

\* SELECT snapshot_date, set_code, collector_number, finish, usd
\* FROM price_snapshots WHERE usd IS NOT NULL
PricedRows(tbl) ==
    Columns(SetToSeq({ r \in tbl : ~IsNull(r.usd) }),
            {"snapshot_date", "set_code", "collector_number", "finish", "usd"})

\* a time series that joins the rows on set code and collector number alone
get_portfolio_timeseries_any_finish(has_table, tbl, df, ties) ==
    IF ~has_table THEN Null
    ELSE LET owned == OwnedOf(df)
             joined == merge(owned, PricedRows(tbl), OnSetCollector)
             merged == Listed([ i \in 1..Len(joined) |->
                         [ snapshot_date |-> joined[i].snapshot_date,
                           position_value_usd |-> Times(joined[i].usd, joined[i].qty) ] ])
             dates == SetToSeq({ merged[i].snapshot_date : i \in 1..Len(merged) })
             ordered == SortBy(dates, [ i \in 1..Len(dates), j \in 1..Len(dates) |->
                                         dates[i] < dates[j] ], ties)
         IN  Some(Listed([ i \in 1..Len(ordered) |->
                    [ snapshot_date |-> ordered[i],
                      total_value_usd |->
                        SumOf(SelectSeq(merged, LAMBDA m : m.snapshot_date = ordered[i]),
                              "position_value_usd") ] ]))

\* the value is Null when read_sql_query raises (no table price_snapshots)
get_portfolio_timeseries(has_table, tbl, df, ties) ==
    IF ~has_table THEN Null
    ELSE LET owned == OwnedOf(df)
             joined == merge(owned, PricedRows(tbl), OnSetCollectorFinish)
             merged == Listed([ i \in 1..Len(joined) |->
                         [ snapshot_date |-> joined[i].snapshot_date,
                           position_value_usd |-> Times(joined[i].usd, joined[i].qty) ] ])
             dates == SetToSeq({ merged[i].snapshot_date : i \in 1..Len(merged) })
             ordered == SortBy(dates, [ i \in 1..Len(dates), j \in 1..Len(dates) |->
                                         dates[i] < dates[j] ], ties)
         IN  Some(Listed([ i \in 1..Len(ordered) |->
                    [ snapshot_date |-> ordered[i],
                      total_value_usd |->
                        SumOf(SelectSeq(merged, LAMBDA m : m.snapshot_date = ordered[i]),
                              "position_value_usd") ] ]))

-----------------------------------------------------------------------------
(* The views: dashboard_data.py get_dashboard_data, movers.py main *)

Raised(c, error) == [cache |-> c, raised |-> TRUE, error |-> error]

\* answers is what the catalog gives for each printing if it is asked.
\* apply_on_empty_raises tells what the installed pandas does at line 235 when
\* movers has no rows: DataFrame.apply(axis=1) of an empty frame gives either an
\* empty Series, or a copy of the frame, and assigning that to one column raises.
\* The value is the cache afterwards and the bundle returned, or the error raised.
get_dashboard_data(c, has_table, tbl, df, t, days, top_n, live_prices, answers, apply_on_empty_raises, ties) ==
    LET owned == OwnedOf(df)
        \* lines 121-144: any exception leaves latest and baseline None
        latest == IF has_table THEN latest_snapshot_date(tbl) ELSE Null
        baseline == IF IsNull(latest) THEN Null
                    ELSE snapshot_on_or_before(tbl, Val(latest) - days)
        \* lines 244-258, of the positions valued and their movers
        Bundle(cache_after, latest_owned, movers, portfolio_ts) ==
            IF IsNull(portfolio_ts) THEN Raised(cache_after, "DatabaseError")
            ELSE [ cache |-> cache_after,
                   raised |-> FALSE,
                   pricing_mode |-> IF live_prices THEN "live" ELSE "snapshot",
                   latest_snapshot |-> latest,
                   baseline_snapshot |-> baseline,
                   total_value_usd |-> TotalValue(latest_owned),
                   num_positions |-> Len(latest_owned),
                   latest_owned |-> latest_owned,
                   top_holdings |-> TopHoldings(latest_owned, top_n, ties),
                   rarity_breakdown |-> Breakdown(latest_owned, "rarity", ties),
                   type_breakdown |-> Breakdown(Exploded(latest_owned), "type_bucket", ties),
                   movers |-> movers,
                   gainers |-> DashboardGainers(movers, top_n, ties),
                   losers |-> DashboardLosers(movers, top_n, ties),
                   portfolio_ts |-> Val(portfolio_ts) ]
        \* lines 223-242: movers stay empty without a baseline that has rows
        Joined(cache_after, latest_owned, has_movers, joined) ==
            IF has_movers /\ joined = <<>> /\ apply_on_empty_raises
            THEN Raised(cache_after, "ValueError")
            ELSE Bundle(cache_after, latest_owned,
                        IF has_movers THEN DashboardChange(joined) ELSE <<>>,
                        get_portfolio_timeseries(has_table, tbl, df, ties))
        Compared(cache_after, latest_owned, baseline_rows) ==
            Joined(cache_after, latest_owned,
                   ~IsNull(baseline) /\ baseline_rows # <<>>,
                   MoversJoin(latest_owned, baseline_rows))
        \* lines 179-221, of the positions valued
        Valued(cache_after, latest_owned) ==
            Compared(cache_after, latest_owned,
                     IF IsNull(baseline) THEN <<>> ELSE BaselineRows(tbl, Val(baseline)))
        \* lines 146-153
        Live(live) ==
            IF live.raised THEN Raised(live.cache, "HTTPError")
            ELSE Valued(live.cache, live.out)
    IN  IF live_prices
        THEN Live(_compute_live_owned(owned, c, CACHE_TTL_HOURS, t,
                                      NoWaits(Len(owned)), answers))
        ELSE IF IsNull(latest) THEN Raised(c, "No snapshots found")
        ELSE Valued(c, SnapshotOwned(owned, tbl, Val(latest)))

\* movers.py main: the value is the tables it prints, or the error raised
movers_main(has_table, tbl, df, days, top_n, sort_mode, ties) ==
    LET latest == IF has_table THEN latest_snapshot_date(tbl) ELSE Null
        baseline == IF IsNull(latest) THEN Null
                    ELSE snapshot_on_or_before(tbl, Val(latest) - days)
        latest_owned == SnapshotOwned(OwnedOf(df), tbl, Val(latest))
        movers == MoversMainChange(
                    MoversJoin(latest_owned, BaselineRows(tbl, Val(baseline))))
    IN  IF ~has_table THEN [raised |-> TRUE, error |-> "OperationalError"]
        ELSE IF IsNull(latest) THEN [raised |-> TRUE, error |-> "No snapshots found"]
        ELSE IF IsNull(baseline)
        THEN [raised |-> TRUE, error |-> "Not enough snapshot history"]
        ELSE [ raised |-> FALSE,
               latest_snapshot |-> latest,
               baseline_snapshot |-> baseline,
               top_holdings |-> TopHoldings(latest_owned, top_n, ties),
               total_value_usd |-> TotalValue(latest_owned),
               movers |-> movers,
               gainers |-> MoversMainGainers(movers, top_n, sort_mode, ties),
               losers |-> MoversMainLosers(movers, top_n, sort_mode, ties) ]

-----------------------------------------------------------------------------
(* Specification Spec: the collection grows, the snapshot job and the test *)
(* tools run, the clock advances                                           *)

\* the collection holds at most this many rows
MaxRows == 2

\* at most this many runs of the job and of the tools
MaxRuns == 3

\* the days_back dev_backfill_history main is run with
DaysBack == {1, 2}

Key1 == PrintingKey(<<"a">>, <<"1">>)

Key2 == PrintingKey(<<"a">>, <<"1", "/", "2">>)

Key3 == PrintingKey(<<"a">>, <<"1", "_", "2">>)

\* the rows add_card.py is made to append in this model
CardsToAdd ==
    { Position(Key1, "foil", 2), Position(Key1, "nonfoil", 1),
      Position(Key2, "foil", 3), Position(Key3, "foil", 1) }

\* the catalog's answer to each printing of df, were it asked during one run
AnswersFor(df) ==
    LET A(k) == IF \E i \in 1..Len(df) : KeyOf(df[i]) = k THEN Answers(k) ELSE {Null}
    IN  { (Key1 :> a1) @@ (Key2 :> a2) @@ (Key3 :> a3) :
            a1 \in A(Key1), a2 \in A(Key2), a3 \in A(Key3) }

Ids == { IdOf(k) : k \in Keys }

\* new_usd typed at the override prompt
OverridePrices == {0, 4}

\* the (scryfall_id, finish) of the rows the random walk starts from
WalkedRows(tbl) ==
    IF tbl = {} THEN {}
    ELSE { <<r.scryfall_id, r.finish>> : r \in RowsOn(tbl, Val(MaxDate(tbl))) }

Init ==
    /\ cache = [f \in Files |-> Absent]
    /\ now = 0
    /\ table = FALSE
    /\ rows = {}
    /\ collection = <<>>
    /\ result = [op |-> "none", runs |-> 0]

\* add_card.py main: one row is appended to collection.csv
AddCard(row) ==
    /\ Len(collection) < MaxRows
    /\ collection' = Append(collection, row)
    /\ result' = [op |-> "add_card", runs |-> result.runs]
    /\ UNCHANGED <<cache, now, table, rows>>

AdvanceClock ==
    /\ now < MaxClock
    /\ now' = now + TickSeconds
    /\ result' = [op |-> "none", runs |-> result.runs]
    /\ UNCHANGED <<cache, table, rows, collection>>

SnapshotJob(answers) ==
    LET r == snapshot_prices_main(cache, rows, collection, now,
                                  NoWaits(Len(collection)), answers)
    IN  /\ result.runs < MaxRuns
        /\ cache' = r.cache
        /\ table' = TRUE
        /\ rows' = r.rows
        /\ result' = [op |-> "snapshot_prices", runs |-> result.runs + 1,
                      raised |-> r.raised, snap_date |-> r.snap_date]
        /\ UNCHANGED <<now, collection>>

CloneSnapshot(ans, scryfall_id, finish, new_usd) ==
    LET r == dev_clone_snapshot_main(table, rows, ans, scryfall_id, finish, new_usd)
    IN  /\ result.runs < MaxRuns
        /\ rows' = r.rows
        /\ result' = [op |-> "dev_clone_snapshot", runs |-> result.runs + 1,
                      raised |-> r.raised]
        /\ UNCHANGED <<cache, now, table, collection>>

Backfill(days_back, walks) ==
    LET r == dev_backfill_history_main(table, rows, days_back, walks)
    IN  /\ result.runs < MaxRuns
        /\ rows' = r.rows
        /\ result' = [op |-> "dev_backfill_history", runs |-> result.runs + 1,
                      raised |-> r.raised]
        /\ UNCHANGED <<cache, now, table, collection>>

RunTool ==
    \/ \E scryfall_id \in Ids, finish \in Finishes, new_usd \in OverridePrices :
            CloneSnapshot("y", scryfall_id, finish, new_usd)
    \/ CloneSnapshot("n", "", "", 0)
    \/ \E days_back \in DaysBack :
        \E walks \in [1..days_back -> [WalkedRows(rows) -> PositivePrices]] :
            Backfill(days_back, walks)

Next ==
    \/ \E row \in CardsToAdd : AddCard(row)
    \/ AdvanceClock
    \/ \E answers \in AnswersFor(collection) : SnapshotJob(answers)
    \/ RunTool

Spec == Init /\ [][Next]_vars

-----------------------------------------------------------------------------
(* Specification SpecStore: rows are upserted one by one, and the test     *)
(* tools run, on a table that exists                                       *)

\* the dates upsert_snapshot is called with
SnapDates == {0, 1}

\* the (card, set_code, collector_number) upsert_snapshot is called with: the
\* payload resolved for a printing is the one the catalog holds for it, or, for
\* printing 1_2, the one cached for printing 1/2 under the file name they share
Resolved ==
    UNION { { <<Val(a), k>> : a \in Answers(k) \ {Null} } : k \in {Key1, Key2} }
        \cup { <<Val(a), Key3>> : a \in Answers(Key2) \ {Null} }

InitStore ==
    /\ cache = [f \in Files |-> Absent]
    /\ now = 0
    /\ table = TRUE
    /\ rows = {}
    /\ collection = <<>>
    /\ result = [op |-> "none", runs |-> 0]

Upsert(snapshot_date, card, key, finish) ==
    LET usd == choose_unit_price_usd(card, finish)[1]
    IN  /\ result.runs < MaxRuns
        /\ rows' = upsert_snapshot(rows, snapshot_date, card, key.set_code,
                                   key.collector_number, finish, usd)
        /\ result' = [op |-> "upsert_snapshot", runs |-> result.runs + 1,
                      snapshot_date |-> snapshot_date, card |-> card, key |-> key,
                      finish |-> finish, usd |-> usd]
        /\ UNCHANGED <<cache, now, table, collection>>

NextStore ==
    \/ \E snapshot_date \in SnapDates, ck \in Resolved, finish \in Finishes :
            Upsert(snapshot_date, ck[1], ck[2], finish)
    \/ RunTool

SpecStore == InitStore /\ [][NextStore]_vars

\* C2: the table never holds two rows with one (snapshot_date, scryfall_id,
\* finish), whatever upserts and clone, backfill and override runs came before;
\* and after upsert_snapshot the one row readable under the key written carries
\* the fields of that call, whatever row was there before.
C2_OneRowPerKeyLastWriteWins ==
    /\ \A r1, r2 \in rows : SamePrimaryKey(r1, r2) => r1 = r2
    /\ result.op = "upsert_snapshot" =>
        { r \in rows : /\ r.snapshot_date = result.snapshot_date
                       /\ r.scryfall_id = result.card.id
                       /\ r.finish = result.finish }
          = { [ snapshot_date |-> result.snapshot_date,
                scryfall_id |-> result.card.id,
                set_code |-> result.key.set_code,
                collector_number |-> result.key.collector_number,
                finish |-> result.finish,
                name |-> result.card.name,
                rarity |-> IF result.card.rarity = "None" THEN "unknown"
                           ELSE result.card.rarity,
                type_line |-> result.card.type_line,
                usd |-> result.usd,
                fetched_at_epoch |-> result.card._fetched_at_epoch ] }

\* C2 witness: the third upsert rewrote a key that held a row with another
\* price, and the table holds one row for it
C2_Witness_RowOverwritten ==
    /\ result.op = "upsert_snapshot"
    /\ result.runs = 3
    /\ result.usd = Some(4)
    /\ result.finish = "foil"
    /\ result.snapshot_date = 0
    /\ Cardinality(rows) = 2
    /\ \E r \in rows : r.snapshot_date = 1

-----------------------------------------------------------------------------
(* Specification SpecCache: resolves against the cache as the clock runs *)

\* the ttl_hours a caller passes: 0, and the program's own constant
Ttls == {0, CACHE_TTL_HOURS}

NoResult == [op |-> "none"]

InitCache ==
    /\ cache = [f \in Files |-> Absent]
    /\ now = 0
    /\ table = FALSE
    /\ rows = {}
    /\ collection = <<>>
    /\ result = NoResult

Tick ==
    /\ now < MaxClock
    /\ now' = now + TickSeconds
    /\ UNCHANGED <<cache, table, rows, collection, result>>

Resolve(key, ttl_hours, answer) ==
    LET r == fetch_scryfall_card_cached(cache, key, ttl_hours, now, answer)
    IN  /\ cache' = r.cache
        /\ result' = [op |-> "resolve", key |-> key, ttl_hours |-> ttl_hours,
                       at |-> now, before |-> cache[PathOf[key]],
                       raised |-> r.raised, card |-> r.card, note |-> r.note,
                       lookups |-> r.lookups]
        /\ UNCHANGED <<now, table, rows, collection>>

\* write_text is cut short by a crash: the file is left with text that does not parse
WriteCutShort(key) ==
    /\ cache' = [cache EXCEPT ![PathOf[key]] = Garbage]
    /\ result' = NoResult
    /\ UNCHANGED <<now, table, rows, collection>>

NextCache ==
    \/ Tick
    \/ \E key \in Keys, ttl_hours \in Ttls : \E answer \in Answers(key) :
            Resolve(key, ttl_hours, answer)
    \/ \E key \in Keys : WriteCutShort(key)

SpecCache == InitCache /\ [][NextCache]_vars

\* a cache record that holds a payload whose age at time t is at most the ttl
HasAgeWithin(rec, ttl_hours, t) ==
    /\ rec.kind = "object"
    /\ ~IsNull(rec.data._fetched_at_epoch)
    /\ t - Val(rec.data._fetched_at_epoch) <= ttl_hours * SecondsPerHour

\* C1: a resolve whose key has a record of age <= ttl returns that record's
\* payload unchanged, leaves the record as it was and issues no remote lookup;
\* every other resolve issues exactly one remote lookup and, the lookup having
\* answered, leaves in the key's record the fetched payload stamped with the
\* time of the call and returns the fetched payload, so that a resolve of the
\* same key straight after it is a cache hit.
C1_ResolveContract ==
    result.op = "resolve" =>
        LET path == PathOf[result.key]
            before == result.before
        IN  IF HasAgeWithin(before, result.ttl_hours, result.at)
            THEN /\ result.lookups = 0
                 /\ ~result.raised
                 /\ result.card = Some(before.data)
                 /\ cache[path] = before
            ELSE /\ result.lookups = 1
                 /\ ~result.raised =>
                        /\ result.card \in Answers(result.key) \ {Null}
                        /\ cache[path] = Object([Val(result.card) EXCEPT
                                            !._fetched_at_epoch = Some(result.at)])
                        /\ fetch_scryfall_card_cached(cache, result.key,
                                result.ttl_hours, result.at, Null).note = "cache_hit"

\* C1 witness: a resolve found a record older than the ttl and replaced it
C1_Witness_ExpiredRecordRefetched ==
    /\ result.op = "resolve"
    /\ result.before.kind = "object"
    /\ ~HasAgeWithin(result.before, result.ttl_hours, result.at)
    /\ result.note = "cache_miss_fetched"
    /\ cache[PathOf[result.key]] # result.before

-----------------------------------------------------------------------------
(* Specification SpecPrice: choose_unit_price_usd on every payload and finish *)

AnyKey == PrintingKey(<<"a">>, <<"1">>)

\* every shape the price part of a payload can take
PricePayloads ==
    { Card(AnyKey, u, f) : u \in PriceTexts, f \in PriceTexts }
        \cup { CardWithoutPrices(AnyKey) }

InitPrice ==
    /\ cache = [f \in Files |-> Absent]
    /\ now = 0
    /\ table = FALSE
    /\ rows = {}
    /\ collection = <<>>
    /\ \E card \in PricePayloads, finish \in Finishes :
            result = [op |-> "input", card |-> card, finish |-> finish]

ChoosePrice ==
    /\ result.op = "input"
    /\ LET r == choose_unit_price_usd(result.card, result.finish)
       IN  result' = [op |-> "choose_unit_price_usd", card |-> result.card,
                      finish |-> result.finish, unit |-> r[1], note |-> r[2]]
    /\ UNCHANGED <<cache, now, table, rows, collection>>

NextPrice == ChoosePrice

SpecPrice == InitPrice /\ [][NextPrice]_vars

\* a price field of the payload that carries a price
FieldPresent(card, field) ==
    /\ card.has_prices
    /\ (IF field = "usd" THEN card.usd ELSE card.usd_foil) \notin {"None", "", "null"}

FieldPrice(card, field) == float(IF field = "usd" THEN card.usd ELSE card.usd_foil)

\* C3: for finish foil the preferred field is usd_foil and the other usd, for
\* finish nonfoil the reverse; the result is the preferred field's price with
\* note "ok" when that field is present, else the other field's price with a
\* fallback note when that one is present, else a null price; the note is "ok"
\* exactly when the preferred field was used and the price is null exactly when
\* both fields are absent.
C3_FinishRule ==
    result.op = "choose_unit_price_usd" =>
        LET card == result.card
            preferred == IF result.finish = "foil" THEN "usd_foil" ELSE "usd"
            other == IF result.finish = "foil" THEN "usd" ELSE "usd_foil"
        IN  /\ FieldPresent(card, preferred) =>
                    /\ result.unit = Some(FieldPrice(card, preferred))
                    /\ result.note = "ok"
            /\ ~FieldPresent(card, preferred) /\ FieldPresent(card, other) =>
                    /\ result.unit = Some(FieldPrice(card, other))
                    /\ result.note = "fallback_used:" \o other
            /\ ~FieldPresent(card, preferred) /\ ~FieldPresent(card, other) =>
                    /\ IsNull(result.unit)
                    /\ result.note = "missing_price_usd"
            /\ (result.note = "ok") = FieldPresent(card, preferred)
            /\ IsNull(result.unit) =
                    (~FieldPresent(card, "usd") /\ ~FieldPresent(card, "usd_foil"))

\* C3 witness: finish foil on a payload with only a nonfoil price gives that
\* price with the fallback note
C3_Witness_FoilFallsBackToUsd ==
    /\ result.op = "choose_unit_price_usd"
    /\ result.finish = "foil"
    /\ result.card.usd = "2"
    /\ result.card.usd_foil = "None"
    /\ result.unit = Some(2)
    /\ result.note = "fallback_used:usd"

-----------------------------------------------------------------------------
(* Specification SpecViews: the snapshot-mode dashboard and movers.py run  *)
(* once on a collection and a store of two snapshot dates                  *)

\* the snapshot dates of the stores: an earlier one and the latest
BaselineDate == Today(0)

LatestDate == BaselineDate + 2

\* the lookback windows asked for: one that reaches BaselineDate, one that
\* reaches no snapshot
ViewDays == {1, 3}

TopNs == {1, 2}

SortModes == {"abs", "pct"}

\* the (printing, finish) the stores hold rows for
Slots == { <<Key1, "foil">>, <<Key2, "foil">> }

\* what a store holds for one (printing, finish) on one date: no row, a row
\* with a NULL price, a row with a price
NoRow == [row |-> FALSE, usd |-> Null]

RowWith(usd) == [row |-> TRUE, usd |-> usd]

Cells == { NoRow, RowWith(Null), RowWith(Some(0)), RowWith(Some(1)), RowWith(Some(4)) }

\* the row the snapshot job writes for a printing it resolved at time 0
StoredRow(snapshot_date, key, finish, usd) ==
    SnapshotRow(snapshot_date,
                [Card(key, "None", "None") EXCEPT !._fetched_at_epoch = Some(0)],
                key.set_code, key.collector_number, finish, usd)

StoreOf(cells) ==
    { StoredRow(e[1], e[2][1], e[2][2], cells[e].usd) :
        e \in { x \in DOMAIN cells : cells[x].row } }

Stores == { StoreOf(cells) : cells \in [{BaselineDate, LatestDate} \X Slots -> Cells] }

RECURSIVE SeqsUpTo(_, _)
SeqsUpTo(set, n) ==
    IF n = 0 THEN { <<>> }
    ELSE SeqsUpTo(set, n - 1)
            \cup { Append(q, x) : q \in { y \in SeqsUpTo(set, n - 1) : Len(y) = n - 1 },
                                  x \in set }

\* the collections load_collection returns: up to MaxRows of the rows added
Collections == SeqsUpTo(CardsToAdd, MaxRows)

\* those of them that leave out printing 1_2, which no store has a row for
StoreCollections == SeqsUpTo({ r \in CardsToAdd : KeyOf(r) # Key3 }, MaxRows)

NoAnswers == (Key1 :> Null) @@ (Key2 :> Null) @@ (Key3 :> Null)

InitViews ==
    /\ cache = [f \in Files |-> Absent]
    /\ now = 0
    /\ collection \in StoreCollections
    /\ \/ table = FALSE /\ rows = {}
       \/ table = TRUE /\ rows \in Stores
    /\ result = NoResult

\* one call of get_dashboard_data(days, top_n, live_prices)
GetDashboardData(days, top_n, live_prices, answers, apply_on_empty_raises, ties) ==
    LET r == get_dashboard_data(cache, table, rows, collection, now, days, top_n,
                                live_prices, answers, apply_on_empty_raises, ties)
    IN  /\ result.op = "none"
        /\ cache' = r.cache
        /\ result' = [op |-> "get_dashboard_data", days |-> days, top_n |-> top_n,
                      live_prices |-> live_prices, before |-> cache, out |-> r]
        /\ UNCHANGED <<now, table, rows, collection>>

\* one run of movers.py --days days --top top_n --sort sort_mode
MoversMain(days, top_n, sort_mode, ties) ==
    /\ result.op = "none"
    /\ result' = [op |-> "movers_main", days |-> days, top_n |-> top_n,
                  sort_mode |-> sort_mode,
                  out |-> movers_main(table, rows, collection, days, top_n, sort_mode,
                                     ties)]
    /\ UNCHANGED <<cache, now, table, rows, collection>>

NextViews ==
    \/ \E days \in ViewDays, top_n \in TopNs, apply_on_empty_raises \in BOOLEAN,
         ties \in TieOrders :
            GetDashboardData(days, top_n, FALSE, NoAnswers, apply_on_empty_raises, ties)
    \/ \E days \in ViewDays, top_n \in TopNs, sort_mode \in SortModes,
         ties \in TieOrders :
            MoversMain(days, top_n, sort_mode, ties)

SpecViews == InitViews /\ [][NextViews]_vars

-----------------------------------------------------------------------------
(* Specification SpecLive: the dashboard in both modes and movers.py run   *)
(* once on a collection, a cache of older payloads and a small store       *)

\* a payload as cache_set left it at time t
Stamped(card, t) == [card EXCEPT !._fetched_at_epoch = Some(t)]

\* the caches: no file, or one file.  Printing 1's file holds a record of age
\* exactly the TTL or an older one; the file printings 1/2 and 1_2 share holds
\* a new record of either.
LiveCaches ==
    LET empty == [f \in Files |-> Absent]
    IN  { empty,
          [empty EXCEPT ![PathOf[Key1]] =
                Object(Stamped(Card(Key1, "1", "2"), MaxClock - TickSeconds))],
          [empty EXCEPT ![PathOf[Key1]] = Object(Stamped(Card(Key1, "None", "4"), 0))],
          [empty EXCEPT ![PathOf[Key2]] =
                Object(Stamped(Card(Key2, "2", "None"), MaxClock))],
          [empty EXCEPT ![PathOf[Key2]] =
                Object(Stamped(Card(Key3, "4", "1"), MaxClock))] }

\* the stores: the latest snapshot has no row, a priced row for printing 1, or
\* a row with a NULL price for it and a priced one for printing 1/2; the earlier
\* snapshot is there or is not
LiveStores ==
    { latest \cup earlier :
        latest \in { {},
                     { StoredRow(LatestDate, Key1, "foil", Some(4)) },
                     { StoredRow(LatestDate, Key1, "foil", Null),
                       StoredRow(LatestDate, Key2, "foil", Some(4)) } },
        earlier \in { {}, { StoredRow(BaselineDate, Key1, "foil", Some(1)),
                            StoredRow(BaselineDate, Key2, "foil", Some(4)) } } }

InitLive ==
    /\ cache \in LiveCaches
    /\ now = MaxClock
    /\ collection \in Collections
    /\ \/ table = FALSE /\ rows = {}
       \/ table = TRUE /\ rows \in LiveStores
    /\ result = NoResult

NextLive ==
    \/ \E days \in ViewDays, top_n \in TopNs, apply_on_empty_raises \in BOOLEAN,
         ties \in TieOrders :
        \/ GetDashboardData(days, top_n, FALSE, NoAnswers, apply_on_empty_raises, ties)
        \/ \E answers \in AnswersFor(collection) :
                GetDashboardData(days, top_n, TRUE, answers, apply_on_empty_raises, ties)
    \/ \E days \in ViewDays, top_n \in TopNs, sort_mode \in SortModes,
         ties \in TieOrders :
            MoversMain(days, top_n, sort_mode, ties)

SpecLive == InitLive /\ [][NextLive]_vars

-----------------------------------------------------------------------------
(* Properties of the views *)

\* the view ran and returned (get_dashboard_data) or printed (movers.py)
Returned == result.op # "none" /\ ~result.out.raised

\* a remote lookup of the run failed
LookupFailed == result.out.raised /\ result.out.error = "HTTPError"

\* the sum of a sequence of integers
Total(terms) ==
    LET S[k \in 0..Len(terms)] == IF k = 0 THEN 0 ELSE S[k - 1] + terms[k]
    IN  S[Len(terms)]

\* row r of a holdings frame is position p of the collection
IsPosition(r, p) ==
    /\ r.set_code = p.set
    /\ r.collector_number = p.collector_number
    /\ r.finish = p.finish
    /\ r.qty = p.qty

\* C4: get_dashboard_data(live_prices=False) on a store with no rows raises the
\* no-snapshots error and returns no bundle.
C4_SnapshotModeNeedsSnapshot ==
    (/\ result.op = "get_dashboard_data"
     /\ ~result.live_prices
     /\ rows = {})
        => /\ result.out.raised
           /\ result.out.error = "No snapshots found"

\* C4 witness: snapshot mode was asked of a table that exists and is empty, for
\* a collection of two rows, and the call raised
C4_Witness_EmptyTableRaises ==
    /\ result.op = "get_dashboard_data"
    /\ ~result.live_prices
    /\ table
    /\ rows = {}
    /\ Len(collection) = 2
    /\ result.out.raised

\* C5: get_dashboard_data(live_prices=True) on a store with no rows, the table
\* existing or not, returns a bundle with the live holdings and total, no
\* gainers, no losers and an empty time series, and raises nothing, if no
\* remote lookup fails.
C5_LiveToleratesEmptyStore ==
    (/\ result.op = "get_dashboard_data"
     /\ result.live_prices
     /\ rows = {}
     /\ ~LookupFailed)
        => /\ ~result.out.raised
           /\ Len(result.out.latest_owned) = Len(collection)
           /\ result.out.total_value_usd =
                Total([ i \in 1..Len(collection) |->
                    IF IsNull(result.out.latest_owned[i].usd) THEN 0
                    ELSE Val(result.out.latest_owned[i].usd) * collection[i].qty ])
           /\ result.out.gainers = <<>>
           /\ result.out.losers = <<>>
           /\ result.out.portfolio_ts = <<>>

\* C6: when the store has a snapshot and no stored date is on or before the
\* latest date minus the window, get_dashboard_data and movers.py both end
\* without an error, with no gainers and no losers.
C6_InsufficientHistoryIsNoError ==
    (/\ result.op \in {"get_dashboard_data", "movers_main"}
     /\ rows # {}
     /\ \A r, l \in rows : r.snapshot_date > l.snapshot_date - result.days
     /\ ~LookupFailed)
        => /\ ~result.out.raised
           /\ result.out.gainers = <<>>
           /\ result.out.losers = <<>>

\* C7: in get_dashboard_data and in movers.py every mover row has delta =
\* current - baseline, and percent = delta / baseline * 100 for a baseline other
\* than 0 and a null percent for a baseline of 0.
C7_PercentNullAtZeroBaseline ==
    Returned =>
        \A t \in {result.out.movers, result.out.gainers, result.out.losers} :
            \A i \in 1..Len(t) :
                /\ t[i].delta_usd = t[i].usd - t[i].usd_baseline
                /\ t[i].pct_change =
                    IF t[i].usd_baseline # 0
                    THEN Num((t[i].delta_usd * 100) \div t[i].usd_baseline)
                    ELSE Missing

\* the key the run ranks by: pct_change for movers.py --sort pct, else delta_usd
RankingKey(m) ==
    IF result.op = "movers_main" /\ result.sort_mode = "pct" THEN m.pct_change
    ELSE Num(m.usd - m.usd_baseline)

\* a ranks strictly ahead of b in a table sorted descending, or ascending
Outranks(a, b, descending) ==
    IF descending THEN Less(RankingKey(b), RankingKey(a))
    ELSE Less(RankingKey(a), RankingKey(b))

Count(seq, x) == Cardinality({ i \in 1..Len(seq) : seq[i] = x })

\* tbl holds the n first of pool in ranking order: it is as long as n and the
\* pool allow, holds rows of the pool only, is sorted, and lacks no row that
\* outranks one it holds
IsTopOf(tbl, pool, n, descending) ==
    /\ Len(tbl) = (IF n <= Len(pool) THEN n ELSE Len(pool))
    /\ \A i \in 1..Len(tbl) : Count(tbl, tbl[i]) <= Count(pool, tbl[i])
    /\ \A i, j \in 1..Len(tbl) : i < j => ~Outranks(tbl[j], tbl[i], descending)
    /\ \A j \in 1..Len(pool) :
        \/ Count(tbl, pool[j]) = Count(pool, pool[j])
        \/ \A i \in 1..Len(tbl) : ~Outranks(pool[j], tbl[i], descending)

\* C8: whatever the ranking key and the baseline prices, gainers holds rows of
\* delta > 0 only and losers rows of delta < 0 only, each at most top_n rows:
\* the top_n largest (gainers) or smallest (losers) of them by the ranking key,
\* in that order.
C8_GainersLosersRanked ==
    Returned =>
        LET movers == result.out.movers
            gainers == result.out.gainers
            losers == result.out.losers
        IN  /\ \A i \in 1..Len(gainers) : gainers[i].usd - gainers[i].usd_baseline > 0
            /\ \A i \in 1..Len(losers) : losers[i].usd - losers[i].usd_baseline < 0
            /\ Len(gainers) <= result.top_n
            /\ Len(losers) <= result.top_n
            /\ IsTopOf(gainers, SelectSeq(movers, LAMBDA m : m.usd - m.usd_baseline > 0),
                       result.top_n, TRUE)
            /\ IsTopOf(losers, SelectSeq(movers, LAMBDA m : m.usd - m.usd_baseline < 0),
                       result.top_n, FALSE)

\* C8 witness: movers.py --sort pct listed two gainers, the first of them up
\* from a baseline of 0 and by fewer dollars than the second
C8_Witness_PercentOrderDiffers ==
    /\ result.op = "movers_main"
    /\ result.sort_mode = "pct"
    /\ ~result.out.raised
    /\ Len(result.out.gainers) = 2
    /\ result.out.gainers[1].usd_baseline = 0
    /\ result.out.gainers[1].delta_usd < result.out.gainers[2].delta_usd

\* C9: in live mode the holdings are the rows of the collection, each once and
\* in order, each valued unit price * quantity, or null for a null unit price;
\* the total is the sum of the values that are not null, and the Top-N table
\* holds no row with a null price.
C9_LiveHoldingsValued ==
    (Returned /\ result.op = "get_dashboard_data" /\ result.live_prices) =>
        LET held == result.out.latest_owned
            top == result.out.top_holdings
        IN  /\ Len(held) = Len(collection)
            /\ \A i \in 1..Len(held) :
                /\ IsPosition(held[i], collection[i])
                /\ held[i].position_value_usd =
                    IF IsNull(held[i].usd) THEN Null
                    ELSE Some(Val(held[i].usd) * collection[i].qty)
            /\ result.out.total_value_usd =
                Total([ i \in 1..Len(held) |->
                    IF IsNull(held[i].position_value_usd) THEN 0
                    ELSE Val(held[i].position_value_usd) ])
            /\ \A i \in 1..Len(top) :
                /\ ~IsNull(top[i].usd)
                /\ Count(top, top[i]) <= Count(held, top[i])

\* C9 witness: live mode valued two rows, the first with no price, the second
\* with a quantity above one, and Top-N, asked for two, lists the second alone
C9_Witness_NullPricedRowListed ==
    /\ result.op = "get_dashboard_data"
    /\ result.live_prices
    /\ ~result.out.raised
    /\ result.top_n = 2
    /\ Len(result.out.latest_owned) = 2
    /\ IsNull(result.out.latest_owned[1].usd)
    /\ result.out.latest_owned[2].qty > 1
    /\ result.out.total_value_usd > 0
    /\ Len(result.out.top_holdings) = 1

\* the row of the latest snapshot for position p, if the store has one
LatestRowsFor(p) ==
    { r \in rows : /\ \A l \in rows : l.snapshot_date <= r.snapshot_date
                   /\ r.set_code = p.set
                   /\ r.collector_number = p.collector_number
                   /\ r.finish = p.finish }

\* C10: in snapshot mode the holdings are the rows of the collection that have
\* a row of the latest snapshot with their set code, collector number and
\* finish, priced by it; the others are in neither the holdings, the total, the
\* position count nor the breakdowns.  In live mode every row of the collection
\* is in the holdings, a row with no usable price too.
C10_SnapshotHoldingsAreMatchedRows ==
    (Returned /\ result.op = "get_dashboard_data") =>
        LET held == result.out.latest_owned
            kept == SelectSeq(collection, LAMBDA p : LatestRowsFor(p) # {})
            RowOf(i) == CHOOSE r \in LatestRowsFor(kept[i]) : TRUE
        IN  IF result.live_prices
            THEN /\ Len(held) = Len(collection)
                 /\ \A i \in 1..Len(held) : IsPosition(held[i], collection[i])
            ELSE /\ Len(held) = Len(kept)
                 /\ result.out.num_positions = Len(kept)
                 /\ \A i \in 1..Len(held) :
                        /\ IsPosition(held[i], kept[i])
                        /\ held[i].usd = RowOf(i).usd
                 /\ result.out.total_value_usd =
                        Total([ i \in 1..Len(kept) |->
                            IF IsNull(RowOf(i).usd) THEN 0
                            ELSE Val(RowOf(i).usd) * kept[i].qty ])
                 /\ \A i \in 1..Len(result.out.top_holdings) :
                        \E j \in 1..Len(kept) :
                            IsPosition(result.out.top_holdings[i], kept[j])
                 /\ Total([ g \in 1..Len(result.out.rarity_breakdown) |->
                                result.out.rarity_breakdown[g].count ])
                        = Total([ i \in 1..Len(kept) |-> kept[i].qty ])
                 /\ \A g \in 1..Len(result.out.rarity_breakdown) :
                        \E i \in 1..Len(kept) :
                            RowOf(i).rarity = result.out.rarity_breakdown[g].key
                 /\ \A g \in 1..Len(result.out.type_breakdown) :
                        \E i \in 1..Len(kept) :
                            \E w \in 1..Len(RowOf(i).type_line) :
                                RowOf(i).type_line[w] = result.out.type_breakdown[g].key

\* C10 witness: snapshot mode valued a collection of two rows of one printing,
\* the latest snapshot holding a row for the foil one only
C10_Witness_UnmatchedRowDropped ==
    /\ result.op = "get_dashboard_data"
    /\ ~result.live_prices
    /\ ~result.out.raised
    /\ Len(collection) = 2
    /\ collection[1].finish = "nonfoil"
    /\ collection[2].finish = "foil"
    /\ KeyOf(collection[1]) = KeyOf(collection[2])
    /\ result.out.num_positions = 1
    /\ result.out.total_value_usd > 0

-----------------------------------------------------------------------------
(* Specification SpecRuns: the snapshot job and the live valuation run on   *)
(* one collection, the clock advancing within the runs and between them     *)

\* the first second of the day the runs start on
DayStart == SecondsPerDay

\* the time that passes before one step of a run: none, or more than the TTL
RunWaits == {0, TickSeconds + TickSeconds}

\* a run is the first or the second of a behaviour
RunNumbers == {1, 2}

\* the caches the runs start from: no file, or the file printings 1/2 and 1_2
\* share holding the payload of 1_2, of age exactly the TTL at DayStart
RunCaches ==
    LET empty == [f \in Files |-> Absent]
    IN  { empty,
          [empty EXCEPT ![PathOf[Key3]] =
                Object(Stamped(Card(Key3, "4", "1"), DayStart - TickSeconds))] }

InitRuns ==
    /\ cache \in RunCaches
    /\ now = DayStart
    /\ collection \in Collections
    /\ table = FALSE
    /\ rows = {}
    /\ result = [op |-> "none", runs |-> 0, last |-> Null]

\* the time the first n steps of a run take
Elapsed(waits, n) == Total(SubSeq(waits, 1, n))

\* half a day passes between two runs
RunsTick ==
    /\ now = DayStart
    /\ now' = now + TickSeconds
    /\ result' = [op |-> "none", runs |-> result.runs, last |-> result.last]
    /\ UNCHANGED <<cache, table, rows, collection>>

\* one call of _compute_live_owned on the collection
LiveRun(waits, answers) ==
    LET r == _compute_live_owned(OwnedOf(collection), cache, CACHE_TTL_HOURS, now,
                                 waits, answers)
    IN  /\ result.runs + 1 \in RunNumbers
        /\ cache' = r.cache
        /\ now' = now + Elapsed(waits, Len(r.resolves))
        /\ result' = [op |-> "_compute_live_owned", runs |-> result.runs + 1,
                      last |-> result.last, raised |-> r.raised,
                      resolves |-> r.resolves, lookups |-> r.lookups,
                      waits |-> waits, answers |-> answers, out |-> r.out,
                      before |-> [cache |-> cache, rows |-> rows]]
        /\ UNCHANGED <<table, rows, collection>>

\* one run of snapshot_prices.py; last tells of the job run before it
JobRun(waits, answers) ==
    LET r == snapshot_prices_main(cache, rows, collection, now, waits, answers)
    IN  /\ result.runs + 1 \in RunNumbers
        /\ cache' = r.cache
        /\ table' = TRUE
        /\ rows' = r.rows
        /\ now' = now + Elapsed(waits, Len(r.resolves))
        /\ result' = [op |-> "snapshot_prices", runs |-> result.runs + 1,
                      last |-> result.last, raised |-> r.raised,
                      resolves |-> r.resolves, lookups |-> r.lookups,
                      waits |-> waits, answers |-> answers, at |-> now,
                      snap_date |-> r.snap_date,
                      before |-> [cache |-> cache, rows |-> rows]]
        /\ UNCHANGED collection

\* the job run is over: what the next run is told of it
JobDone ==
    /\ result.op = "snapshot_prices"
    /\ result' = [op |-> "none", runs |-> result.runs,
                  last |-> Some([answers |-> result.answers, raised |-> result.raised,
                                 snap_date |-> result.snap_date])]
    /\ UNCHANGED <<cache, now, table, rows, collection>>

NextRuns ==
    \/ RunsTick
    \/ \E waits \in [1..Len(collection) -> RunWaits], answers \in AnswersFor(collection) :
        \/ LiveRun(waits, answers)
        \/ JobRun(waits, answers)
    \/ JobDone

SpecRuns == InitRuns /\ [][NextRuns]_vars

-----------------------------------------------------------------------------
(* Properties of the runs *)

\* a run of the live valuation or of the snapshot job has just ended
RunEnded == result.op \in {"_compute_live_owned", "snapshot_prices"}

\* C11: within one run of _compute_live_owned or of snapshot_prices.main no
\* printing key is resolved more than once and none is looked up remotely more
\* than once, whatever the rows, the finishes and the waits of the run
C11_OneResolvePerKeyPerRun ==
    RunEnded =>
        \A k \in Keys : /\ Count(result.resolves, k) <= 1
                        /\ Count(result.lookups, k) <= 1

\* the distinct (printing key, finish) of the owned positions
OwnedItems == { <<KeyOf(collection[i]), collection[i].finish>> : i \in 1..Len(collection) }

\* the payloads of printing key k that a run can have resolved: the catalog's
\* answer to k, and the records about k in the cache as the run found it
PayloadsOf(k, answers, c) ==
    { Val(answers[k]) : a \in { answers[k] } \ {Null} }
        \cup { c[f].data : f \in { g \in Files : c[g].kind = "object" /\ c[g].data.id = IdOf(k) } }

\* row r is the snapshot row of the owned (key, finish) e, priced by the finish
\* rule from some payload of that key
IsRowOf(r, e, payloads) ==
    /\ r.set_code = e[1].set_code
    /\ r.collector_number = e[1].collector_number
    /\ r.finish = e[2]
    /\ r.scryfall_id = IdOf(e[1])
    /\ \E card \in payloads : r.usd = choose_unit_price_usd(card, e[2])[1]

\* a run of the snapshot job has just ended with its commit
JobCompleted == result.op = "snapshot_prices" /\ ~result.raised

\* C12: after a completed run of the snapshot job on date D the rows of date D
\* are one row for each distinct (printing key, finish) of the collection and no
\* other row; each has the position's set code, collector number and finish and
\* the price the finish rule selects from that printing's payload
C12_OneRowPerOwnedItem ==
    JobCompleted =>
        LET today == RowsOn(rows, result.snap_date)
        IN  /\ Cardinality(today) = Cardinality(OwnedItems)
            /\ \A e \in OwnedItems :
                \E r \in today :
                    IsRowOf(r, e, PayloadsOf(e[1], result.answers, result.before.cache))

\* a snapshot row without the time its payload was fetched at
Stored(r) ==
    [ c \in {"snapshot_date", "scryfall_id", "finish", "set_code", "collector_number",
             "name", "rarity", "type_line", "usd"} |-> r[c] ]

\* the job run that just ended, run again from the same cache at the same time
\* with the same waits and answers, on the store less its rows of that date
RunOnNoRowsOfDate ==
    snapshot_prices_main(result.before.cache,
                         { r \in result.before.rows : r.snapshot_date # result.snap_date },
                         collection, result.at, result.waits, result.answers)

\* the job ran before on the same date, to its commit or to a failed lookup,
\* and the catalog holds the same payload for every printing as it did then (a
\* lookup that failed in one of the two runs says nothing of the payload)
RanBeforeOnDate ==
    /\ ~IsNull(result.last)
    /\ Val(result.last).snap_date = result.snap_date
    /\ \A k \in Keys :
            \/ Val(result.last).answers[k] = result.answers[k]
            \/ IsNull(Val(result.last).answers[k])
            \/ IsNull(result.answers[k])

\* C13: a completed run of the snapshot job for date D that follows an earlier
\* run of the job for D (completed or aborted), positions and catalog answers
\* unchanged, leaves for D exactly the rows that the run produces on a store with
\* no rows for D
C13_RerunLeavesRowsOfOneRun ==
    (JobCompleted /\ RanBeforeOnDate) =>
        { Stored(r) : r \in RowsOn(rows, result.snap_date) }
            = { Stored(r) : r \in RowsOn(RunOnNoRowsOfDate.rows, result.snap_date) }

-----------------------------------------------------------------------------
(* Loading the collection: _shared.py load_collection.  A CSV file is the   *)
(* set of its column names and the sequence of its rows, every cell a text. *)

\* required = ["set", "collector_number", "qty", "finish"]
RequiredColumns == {"set", "collector_number", "qty", "finish"}

\* the texts of the finish cells of the model, and str.strip().str.lower() of
\* each; an empty cell is read as NaN, which astype(str) makes "nan"
FinishTexts == {"foil", "nonfoil", " Foil ", "etched", ""}

StripLower(text) ==
    CASE text = " Foil " -> "foil"
      [] text = "" -> "nan"
      [] OTHER -> text

\* the texts of the qty cells of the model: numbers, an empty cell, a word
QtyTexts == {"2", "0", "-1", "1.5", "", "x"}

\* pd.to_numeric(errors="raise") accepts the cell: an empty cell becomes NaN
IsNumeric(text) == text # "x"

\* astype(int) of the number read: NaN cannot be cast, a fraction is cut off
IsFinite(text) == text # ""

AsInt(text) ==
    CASE text = "2" -> 2
      [] text = "0" -> 0
      [] text = "-1" -> 0 - 1
      [] text = "1.5" -> 1

\* the value is the DataFrame returned, or the error raised
load_collection(exists, columns, lines) ==
    IF ~exists THEN [raised |-> TRUE, error |-> "FileNotFoundError", df |-> <<>>]
    ELSE IF RequiredColumns \ columns # {}
    THEN [raised |-> TRUE, error |-> "ValueError: Missing required columns", df |-> <<>>]
    ELSE IF \E i \in 1..Len(lines) : ~IsNumeric(lines[i].qty) \/ ~IsFinite(lines[i].qty)
    THEN [raised |-> TRUE, error |-> "ValueError: qty", df |-> <<>>]
    ELSE IF \E i \in 1..Len(lines) : StripLower(lines[i].finish) \notin {"nonfoil", "foil"}
    THEN [raised |-> TRUE, error |-> "ValueError: Invalid finish values", df |-> <<>>]
    ELSE [ raised |-> FALSE, error |-> "",
           df |-> Listed([ i \in 1..Len(lines) |->
                    [ set |-> lines[i].set, collector_number |-> lines[i].collector_number,
                      finish |-> StripLower(lines[i].finish),
                      qty |-> AsInt(lines[i].qty) ] ]) ]

-----------------------------------------------------------------------------
(* Specification SpecLoad: load_collection reads one CSV file *)

\* the lines of the files: printing 1 with every finish and qty text
CsvLines ==
    { [ set |-> Key1.set_code, collector_number |-> Key1.collector_number,
        finish |-> f, qty |-> q ] : f \in FinishTexts, q \in QtyTexts }

\* the column sets of the files: every required column, with or without the
\* optional one, or one required column left out
CsvColumns ==
    { RequiredColumns, RequiredColumns \cup {"acquired_price_usd"} }
        \cup { RequiredColumns \ {c} : c \in RequiredColumns }

InitLoad ==
    /\ cache = [f \in Files |-> Absent]
    /\ now = 0
    /\ table = FALSE
    /\ rows = {}
    /\ collection = <<>>
    /\ \E exists \in BOOLEAN, columns \in CsvColumns, lines \in SeqsUpTo(CsvLines, MaxRows) :
            /\ ~exists => (columns = RequiredColumns /\ lines = <<>>)
            /\ result = [op |-> "none", exists |-> exists, columns |-> columns,
                         lines |-> lines]

\* one call of load_collection(csv_path)
LoadCollection ==
    LET r == load_collection(result.exists, result.columns, result.lines)
    IN  /\ result.op = "none"
        /\ collection' = r.df
        /\ result' = [op |-> "load_collection", exists |-> result.exists,
                      columns |-> result.columns, lines |-> result.lines,
                      raised |-> r.raised, error |-> r.error]
        /\ UNCHANGED <<cache, now, table, rows>>

NextLoad == LoadCollection

SpecLoad == InitLoad /\ [][NextLoad]_vars

\* the file has a row whose finish is neither foil nor nonfoil, or whose
\* quantity is missing, not a number or not positive, or lacks a required column
BadInput ==
    \/ RequiredColumns \ result.columns # {}
    \/ \E i \in 1..Len(result.lines) :
        \/ StripLower(result.lines[i].finish) \notin Finishes
        \/ result.lines[i].qty \in {"", "x", "0", "-1"}

\* C14: every position load_collection returns has a finish of {foil, nonfoil}
\* and a quantity above 0, and a file with a bad row or without a required
\* column makes the load raise and return no position
C14_LoadedPositionsValid ==
    result.op = "load_collection" =>
        /\ \A i \in 1..Len(collection) :
                collection[i].finish \in Finishes /\ collection[i].qty > 0
        /\ BadInput => (result.raised /\ collection = <<>>)

-----------------------------------------------------------------------------
(* Properties of the time series and the breakdowns *)

\* get_dashboard_data returned a bundle
BundleReturned == result.op = "get_dashboard_data" /\ ~result.out.raised

\* the dates the store holds a row for
StoredDates == { r.snapshot_date : r \in rows }

\* the priced rows of date d for the printing and finish of position p
PricedRowsFor(p, d) ==
    { r \in rows : /\ r.snapshot_date = d
                   /\ r.set_code = p.set
                   /\ r.collector_number = p.collector_number
                   /\ r.finish = p.finish
                   /\ ~IsNull(r.usd) }

\* quantity * price of position p on date d, 0 when it has no priced row
ValueOn(p, d) ==
    LET priced == SetToSeq(PricedRowsFor(p, d))
    IN  Total([ j \in 1..Len(priced) |-> Val(priced[j].usd) * p.qty ])

\* the value of the whole collection on date d
CollectionValueOn(d) == Total([ i \in 1..Len(collection) |-> ValueOn(collection[i], d) ])

\* the points are in strictly increasing date order and each has the value of
\* the collection on its date
PointsOrderedAndValued(ts) ==
    /\ \A i \in 1..Len(ts) : ts[i].total_value_usd = CollectionValueOn(ts[i].snapshot_date)
    /\ \A i, j \in 1..Len(ts) : i < j => ts[i].snapshot_date < ts[j].snapshot_date

\* C15: the time series has one point for every date of the store, a date on
\* which no position has a priced row included (with value 0); each point has
\* the sum of quantity * price of that date over the owned positions, and the
\* points are in strictly increasing date order
C15_TimeSeriesCoversEveryDate ==
    BundleReturned =>
        /\ { result.out.portfolio_ts[i].snapshot_date :
                i \in 1..Len(result.out.portfolio_ts) } = StoredDates
        /\ PointsOrderedAndValued(result.out.portfolio_ts)

\* the category tokens the dashboard derives from a type text
TokensOf(type_line) ==
    { type_buckets(type_line)[j] : j \in 1..Len(type_buckets(type_line)) }

\* the valued positions that have token k
Having(latest_owned, k) == SelectSeq(latest_owned, LAMBDA r : k \in TokensOf(r.type_line))

\* C16: the category breakdown has one group for every token of a valued
\* position and no other; the group's count is the sum of the quantities and its
\* value the sum of the position values of the positions that have the token,
\* each position counted once in the group
C16_CategoryGroupsCountEachPositionOnce ==
    BundleReturned =>
        LET groups == result.out.type_breakdown
            held == result.out.latest_owned
        IN  /\ { groups[g].key : g \in 1..Len(groups) }
                    = UNION { TokensOf(held[i].type_line) : i \in 1..Len(held) }
            /\ \A g \in 1..Len(groups) :
                /\ groups[g].count = SumQty(Having(held, groups[g].key))
                /\ groups[g].value_usd
                        = SumOf(Having(held, groups[g].key), "position_value_usd")

-----------------------------------------------------------------------------
(* Specification SpecTypes: both type_buckets functions applied to one type *)
(* text                                                                     *)

\* a type text has at most this many words and separators
MaxItems == 4

\* the words and separators of the texts: two words, whitespace, the dash
\* U+2014 and the three characters the dashboard splits on
TypeItems == {"Artifact", "Golem", " ", "EMDASH", "MOJIBAKE"}

InitTypes ==
    /\ cache = [f \in Files |-> Absent]
    /\ now = 0
    /\ table = FALSE
    /\ rows = {}
    /\ collection = <<>>
    /\ \E type_line \in SeqsUpTo(TypeItems, MaxItems) :
            result = [op |-> "none", type_line |-> type_line]

\* the dashboard and the validation script derive the tokens of the text
TypeBuckets ==
    /\ result.op = "none"
    /\ result' = [op |-> "type_buckets", type_line |-> result.type_line,
                  dashboard |-> type_buckets(result.type_line),
                  validation |-> validate_type_buckets(result.type_line)]
    /\ UNCHANGED <<cache, now, table, rows, collection>>

NextTypes == TypeBuckets

SpecTypes == InitTypes /\ [][NextTypes]_vars

\* the words of the text that stand before its first dash, "Unknown" alone
\* when there is none
WordsLeftOfDash(type_line) ==
    LET i == IF \E j \in 1..Len(type_line) : type_line[j] = "EMDASH"
             THEN CHOOSE j \in 1..Len(type_line) :
                    /\ type_line[j] = "EMDASH"
                    /\ \A h \in 1..(j - 1) : type_line[h] # "EMDASH"
             ELSE Len(type_line) + 1
        left == [ j \in { h \in 1..(i - 1) : type_line[h] # " " } |-> type_line[j] ]
    IN  IF DOMAIN left = {} THEN <<"Unknown">>
        ELSE [ n \in 1..Cardinality(DOMAIN left) |->
                left[CHOOSE j \in DOMAIN left :
                        Cardinality({ h \in DOMAIN left : h < j }) = n - 1] ]

\* C17: the tokens the dashboard derives are the whitespace-separated words of
\* the text left of its first dash, none of them the dash or a word after it,
\* "Unknown" alone for an empty or whitespace-only text, and the validation
\* script derives the same tokens
C17_TokensAreWordsLeftOfDash ==
    result.op = "type_buckets" =>
        /\ result.dashboard = WordsLeftOfDash(result.type_line)
        /\ result.dashboard = result.validation

-----------------------------------------------------------------------------
(* Specification SpecDates: the dashboard and movers.py run once on a store *)
(* of up to four snapshot dates, for windows of zero to three days          *)

\* the dates a store can hold a snapshot of
StoreDates == {0, 1, 2, 3}

\* the windows asked for
DateDays == {0, 1, 2, 3}

InitDates ==
    /\ cache = [f \in Files |-> Absent]
    /\ now = 0
    /\ collection = << Position(Key1, "foil", 2) >>
    /\ table = TRUE
    /\ \E dates \in SUBSET StoreDates :
            rows = { StoredRow(d, Key1, "foil", Some(1)) : d \in dates }
    /\ result = NoResult

NextDates ==
    \/ \E days \in DateDays, live_prices \in BOOLEAN, apply_on_empty_raises \in BOOLEAN :
        \E answers \in AnswersFor(collection), ties \in TieOrders :
            GetDashboardData(days, 1, live_prices, answers, apply_on_empty_raises, ties)
    \/ \E days \in DateDays, ties \in TieOrders : MoversMain(days, 1, "abs", ties)

SpecDates == InitDates /\ [][NextDates]_vars

\* the target date of the run: the greatest stored date less the window
TargetDate == Val(MaxDate(rows)) - result.days

\* b is the nearest stored date on or before the target date
IsNearestOnOrBefore(b) ==
    /\ b \in StoredDates
    /\ b <= TargetDate
    /\ ~\E d \in StoredDates : b < d /\ d <= TargetDate

\* C18: the latest date of a run is the greatest stored date; its baseline date
\* is a stored date on or before latest - days with no stored date between it
\* and latest - days, and is absent exactly when no stored date is on or before
\* latest - days (movers.py then ends with "Not enough snapshot history")
C18_BaselineIsNearestOnOrBefore ==
    (result.op # "none" /\ rows # {}) =>
        /\ Returned =>
            /\ result.out.latest_snapshot = MaxDate(rows)
            /\ \A d \in StoredDates : d <= Val(result.out.latest_snapshot)
            /\ IF \E d \in StoredDates : d <= TargetDate
               THEN /\ ~IsNull(result.out.baseline_snapshot)
                    /\ IsNearestOnOrBefore(Val(result.out.baseline_snapshot))
               ELSE IsNull(result.out.baseline_snapshot)
        /\ (result.op = "movers_main" /\ result.out.raised) =>
            /\ result.out.error = "Not enough snapshot history"
            /\ ~\E d \in StoredDates : d <= TargetDate

\* C18 witness: a run returned with a baseline date earlier than the target
\* date, the store holding a still earlier date as well
C18_Witness_NearestOfTwoEarlierDates ==
    /\ Returned
    /\ ~IsNull(result.out.baseline_snapshot)
    /\ Val(result.out.baseline_snapshot) < TargetDate
    /\ \E d \in StoredDates : d < Val(result.out.baseline_snapshot)

-----------------------------------------------------------------------------
(* Properties of the Top-N table and the rarity breakdown, over SpecViews *)

\* the priced positions a run ranks for its Top-N table, in input order
PricedPositions ==
    LET latest_owned == IF result.op = "get_dashboard_data"
                        THEN result.out.latest_owned
                        ELSE SnapshotOwned(OwnedOf(collection), rows,
                                           Val(result.out.latest_snapshot))
    IN  SelectSeq(latest_owned, LAMBDA r : ~IsNull(r.usd))

\* the place of row i of pool when the rows are put in non-increasing value
\* order and rows of equal value keep their input order
StablePlace(pool, i) ==
    1 + Cardinality({ j \in 1..Len(pool) :
            \/ Val(pool[j].position_value_usd) > Val(pool[i].position_value_usd)
            \/ /\ Val(pool[j].position_value_usd) = Val(pool[i].position_value_usd)
               /\ j < i })

\* C19: the Top-N table lists the N priced positions of greatest value in
\* non-increasing value order, positions of equal value in their input order
C19_TopHoldingsStableOrder ==
    Returned =>
        LET pool == PricedPositions
            top == result.out.top_holdings
        IN  /\ Len(top) = Min(result.top_n, Len(pool))
            /\ \A i \in 1..Len(pool) :
                    StablePlace(pool, i) <= Len(top) => top[StablePlace(pool, i)] = pool[i]

\* the valued positions of rarity k
OfRarity(latest_owned, k) == SelectSeq(latest_owned, LAMBDA r : r.rarity = k)

\* the quantities of positions, summed
QtyTotal(positions) ==
    Total(Listed([ i \in 1..Len(positions) |-> positions[i].qty ]))

\* the position values of positions that have one, summed
ValueTotal(positions) ==
    LET valued == SelectSeq(positions, LAMBDA r : ~IsNull(r.position_value_usd))
    IN  Total(Listed([ i \in 1..Len(valued) |-> Val(valued[i].position_value_usd) ]))

\* C20: the rarity breakdown has one group per rarity of the valued positions;
\* a group's count is the sum of the quantities and its value the sum of the
\* non-null position values of the positions of that rarity; the group values
\* sum to the total value reported and the group counts to the total quantity
\* of the valued positions; the groups are in non-increasing value order
C20_RarityGroupsPartitionHoldings ==
    BundleReturned =>
        LET groups == result.out.rarity_breakdown
            held == result.out.latest_owned
        IN  /\ \A g, h \in 1..Len(groups) : groups[g].key = groups[h].key => g = h
            /\ { groups[g].key : g \in 1..Len(groups) }
                    = { held[i].rarity : i \in 1..Len(held) }
            /\ \A g \in 1..Len(groups) :
                /\ groups[g].count = QtyTotal(OfRarity(held, groups[g].key))
                /\ groups[g].value_usd = ValueTotal(OfRarity(held, groups[g].key))
            /\ Total(Listed([ g \in 1..Len(groups) |-> groups[g].value_usd ]))
                    = result.out.total_value_usd
            /\ Total(Listed([ g \in 1..Len(groups) |-> groups[g].count ]))
                    = QtyTotal(held)
            /\ \A g, h \in 1..Len(groups) :
                    g < h => groups[g].value_usd >= groups[h].value_usd

\* C20 witness: a breakdown of two groups, the first of greater value and of
\* smaller count than the second, both of them of more than one position's
\* quantity
C20_Witness_TwoGroupsByValue ==
    /\ BundleReturned
    /\ Len(result.out.rarity_breakdown) = 2
    /\ result.out.rarity_breakdown[1].value_usd > result.out.rarity_breakdown[2].value_usd
    /\ result.out.rarity_breakdown[2].value_usd > 0
    /\ result.out.rarity_breakdown[1].count < result.out.rarity_breakdown[2].count
    /\ result.out.rarity_breakdown[1].count > 1

-----------------------------------------------------------------------------
(* Specification SpecRecords: resolves against a cache directory whose files *)
(* hold any content                                                          *)

\* what the file of a key can hold: nothing, text that is no JSON, bytes that
\* are no text, JSON that is no object, a payload with no timestamp, a payload
\* stamped at time 0
RecordContents(key) ==
    { Absent, Garbage, Unreadable, NonObject,
      Object(Card(key, "1", "2")), Object(Stamped(Card(key, "1", "2"), 0)) }

InitRecords ==
    /\ cache \in [Files -> UNION { RecordContents(k) : k \in Keys }]
    /\ \A f \in Files : \E k \in Keys : PathOf[k] = f /\ cache[f] \in RecordContents(k)
    /\ now = 0
    /\ table = FALSE
    /\ rows = {}
    /\ collection = <<>>
    /\ result = NoResult

NextRecords ==
    \E key \in Keys, ttl_hours \in Ttls : \E answer \in Answers(key) :
        result.op = "none" /\ Resolve(key, ttl_hours, answer)

SpecRecords == InitRecords /\ [][NextRecords]_vars

\* a record that holds a payload with a numeric fetch timestamp
WellFormed(rec) == rec.kind = "object" /\ ~IsNull(rec.data._fetched_at_epoch)

\* C21: a resolve whose key has a record that is no well-formed payload with a
\* numeric timestamp does not raise in cache_get: it takes the record for
\* absent, asks the catalog once and, the catalog having answered, leaves a
\* well-formed payload in the record
C21_MalformedRecordIsAMiss ==
    (result.op = "resolve" /\ ~WellFormed(result.before)) =>
        /\ result.note # "AttributeError"
        /\ result.lookups = 1
        /\ ~result.raised =>
                /\ WellFormed(cache[PathOf[result.key]])
                /\ cache[PathOf[result.key]] =
                        Object(Stamped(Val(result.card), result.at))

-----------------------------------------------------------------------------
(* Properties of a run whose lookup fails, over SpecRuns *)

\* the last item of a sequence that has one
Last(seq) == seq[Len(seq)]

\* the files a run wrote before its last lookup
WrittenBeforeLast == { PathOf[result.lookups[i]] : i \in 1..(Len(result.lookups) - 1) }

\* C22: a run ends by raising exactly when the catalog fails a lookup the run
\* makes; the failed lookup is asked once and is the last step of the run; the
\* failing resolve leaves every cache record as it found it (the records the run
\* wrote before are the only ones that differ from the cache the run started
\* with); and the run produces no result: the job commits no row, the live
\* valuation returns no frame
C22_FailedLookupAbortsRun ==
    RunEnded =>
        /\ result.raised = (\E i \in 1..Len(result.lookups) :
                                IsNull(result.answers[result.lookups[i]]))
        /\ result.raised =>
            /\ Last(result.lookups) = Last(result.resolves)
            /\ IsNull(result.answers[Last(result.lookups)])
            /\ Count(result.lookups, Last(result.lookups)) = 1
            /\ \A f \in Files \ WrittenBeforeLast : cache[f] = result.before.cache[f]
            /\ result.op = "snapshot_prices" => rows = result.before.rows
            /\ result.op = "_compute_live_owned" => result.out = <<>>

\* C22 witness: a run found a stale record for a printing, asked the catalog,
\* which failed, after a lookup for another printing had been answered
C22_Witness_FailureAfterFetch ==
    /\ RunEnded
    /\ result.raised
    /\ Len(result.lookups) = 2
    /\ result.before.cache[PathOf[Last(result.lookups)]].kind = "object"
    /\ cache # result.before.cache

-----------------------------------------------------------------------------
(* Properties of the rows a run of the snapshot job writes, over SpecRuns *)

\* the rows of a table that are not of date d
RowsNotOn(tbl, d) == { r \in tbl : r.snapshot_date # d }

\* C23: a run of the snapshot job dates its rows with the date it read when it
\* started, and leaves every row of another date as it was: none inserted, none
\* modified, none removed
C23_JobWritesRowsOfItsDateOnly ==
    result.op = "snapshot_prices" =>
        /\ result.snap_date = Today(result.at)
        /\ RowsNotOn(rows, result.snap_date) = RowsNotOn(result.before.rows, result.snap_date)
        /\ \A r \in rows \ result.before.rows : r.snapshot_date = result.snap_date

\* C23 witness: a run of the job committed rows to a store that held rows of
\* an earlier date for the same items
C23_Witness_EarlierDateKept ==
    /\ JobCompleted
    /\ rows # result.before.rows
    /\ \E r \in rows \ result.before.rows, q \in result.before.rows :
            /\ q.snapshot_date < r.snapshot_date
            /\ SameItemAndFinish(q, r)

-----------------------------------------------------------------------------
(* Specification SpecRace: two runs of snapshot_prices.py at once on a      *)
(* collection of one position, each step of a run taken on its own.  The    *)
(* cache file is the text written to it; write_text opens the file for      *)
(* writing, which empties it, and then writes its text from the start.      *)

\* the two runs
Procs == {1, 2}

\* the position both runs hold
RacePosition == Position(Key1, "foil", 1)

\* json.dumps of one price field: null, or the text in quotes
FieldText(x) == IF x = "None" THEN <<"n", "u", "l", "l">> ELSE <<"QUOTE", x, "QUOTE">>

\* json.dumps of the time of a stamp
StampText(t) == IF t = 0 THEN <<"0">> ELSE <<"1">>

\* json.dumps(card) of a stamped payload, as a sequence of characters
Dumps(card) ==
    <<"{", card.id>> \o FieldText(card.usd) \o FieldText(card.usd_foil)
        \o StampText(Val(card._fetched_at_epoch)) \o <<"}">>

\* the stamped payloads a run can write
RacePayloads == { Stamped(Val(a), 0) : a \in Answers(Key1) \ {Null} }

\* json.loads(text): the payload the text is the dump of, Null when it is none
Loads(text) ==
    IF \E card \in RacePayloads : Dumps(card) = text
    THEN Some(CHOOSE card \in RacePayloads : Dumps(card) = text)
    ELSE Null

Text(text) == [kind |-> "text", text |-> text]

\* the cache as cache_get reads it: a text that parses is its payload
Parsed(c) ==
    [ f \in Files |->
        IF c[f].kind # "text" THEN c[f]
        ELSE IF IsNull(Loads(c[f].text)) THEN Garbage
        ELSE Object(Val(Loads(c[f].text))) ]

\* a write of the text new at the start of a file that holds the text old
WriteAtStart(old, new) == new \o SubSeq(old, Len(new) + 1, Len(old))

InitRace ==
    /\ cache = [f \in Files |-> Absent]
    /\ now = 0
    /\ table = TRUE
    /\ rows = {}
    /\ collection = << RacePosition >>
    /\ result = [ op |-> "race",
                  pc |-> [p \in Procs |-> "cache_get"],
                  card |-> [p \in Procs |-> Null],
                  pending |-> [p \in Procs |-> Null],
                  lock |-> 0 ]

\* _shared.py line 91: cache_get
RaceCacheGet(p) ==
    LET cached == cache_get(Parsed(cache), Key1, CACHE_TTL_HOURS, now)
    IN  /\ result.pc[p] = "cache_get"
        /\ result' = IF IsNull(cached)
                     THEN [result EXCEPT !.pc[p] = "fetch"]
                     ELSE [result EXCEPT !.pc[p] = "upsert", !.card[p] = cached]
        /\ UNCHANGED <<cache, now, table, rows, collection>>

\* _shared.py line 95: fetch_scryfall_card
RaceFetch(p, answer) ==
    /\ result.pc[p] = "fetch"
    /\ result' = IF IsNull(answer)
                 THEN [result EXCEPT !.pc[p] = "raised"]
                 ELSE [result EXCEPT !.pc[p] = "open", !.card[p] = answer]
    /\ UNCHANGED <<cache, now, table, rows, collection>>

\* _shared.py line 87, write_text: the file is opened for writing and is empty
RaceOpen(p) ==
    /\ result.pc[p] = "open"
    /\ cache' = [cache EXCEPT ![PathOf[Key1]] = Text(<<>>)]
    /\ result' = [result EXCEPT !.pc[p] = "write"]
    /\ UNCHANGED <<now, table, rows, collection>>

\* _shared.py line 87, write_text: the text is written from the start of the file
RaceWrite(p) ==
    /\ result.pc[p] = "write"
    /\ cache' = [cache EXCEPT ![PathOf[Key1]] =
                    Text(WriteAtStart(cache[PathOf[Key1]].text,
                                      Dumps(Stamped(Val(result.card[p]), now))))]
    /\ result' = [result EXCEPT !.pc[p] = "upsert"]
    /\ UNCHANGED <<now, table, rows, collection>>

\* snapshot_prices.py lines 94-104: the INSERT OR REPLACE takes the write lock
\* of the database, or raises "database is locked" when the other run holds it
RaceUpsert(p) ==
    /\ result.pc[p] = "upsert"
    /\ result' =
        IF result.lock # 0
        THEN [result EXCEPT !.pc[p] = "raised"]
        ELSE [result EXCEPT
                !.pc[p] = "commit", !.lock = p,
                !.pending[p] = Some(upsert_snapshot(rows, Today(now), Val(result.card[p]),
                        Key1.set_code, Key1.collector_number, RacePosition.finish,
                        choose_unit_price_usd(Val(result.card[p]), RacePosition.finish)[1]))]
    /\ UNCHANGED <<cache, now, table, rows, collection>>

\* snapshot_prices.py line 106: conn.commit()
RaceCommit(p) ==
    /\ result.pc[p] = "commit"
    /\ rows' = Val(result.pending[p])
    /\ result' = [result EXCEPT !.pc[p] = "done", !.lock = 0]
    /\ UNCHANGED <<cache, now, table, collection>>

NextRace ==
    \E p \in Procs :
        \/ RaceCacheGet(p)
        \/ \E answer \in Answers(Key1) : RaceFetch(p, answer)
        \/ RaceOpen(p)
        \/ RaceWrite(p)
        \/ RaceUpsert(p)
        \/ RaceCommit(p)

SpecRace == InitRace /\ [][NextRace]_vars

\* both runs are over
RaceOver == result.op = "race" /\ \A p \in Procs : result.pc[p] \in {"done", "raised"}

\* the runs that wrote the cache file
RaceWriters == { p \in Procs : result.pc[p] \in {"upsert", "commit", "done", "raised"}
                               /\ ~IsNull(result.card[p])
                               /\ IsNull(Val(result.card[p])._fetched_at_epoch) }

\* C24: when both runs are over, the cache file, if one of them wrote it, holds
\* the whole text one of the writers wrote and nothing else; the store holds at
\* most one row for the position, and it is the row one of the runs upserted;
\* and each resolve that returned gave a whole payload of the printing
C24_RaceLeavesOneWritersValue ==
    RaceOver =>
        /\ RaceWriters # {} =>
            \E p \in RaceWriters :
                cache[PathOf[Key1]] = Text(Dumps(Stamped(Val(result.card[p]), now)))
        /\ Cardinality(rows) <= 1
        /\ \A r \in rows : \E p \in Procs :
                /\ result.pc[p] = "done"
                /\ Val(result.pending[p]) = {r}
        /\ \A p \in Procs : ~IsNull(result.card[p]) =>
                \E a \in Answers(Key1) \ {Null} :
                    Val(result.card[p]) \in {Val(a), Stamped(Val(a), 0)}

-----------------------------------------------------------------------------
(* Properties of the cache file names, over SpecCache *)

\* C25: two different printing keys have different cache files, so a resolve
\* that is answered from the cache returns a payload of the key it was asked
\* for, whatever was stored for other keys before
C25_HitReturnsPayloadOfKey ==
    (result.op = "resolve" /\ result.note = "cache_hit") =>
        /\ Val(result.card).id = IdOf(result.key)
        /\ \A k \in Keys \ {result.key} : PathOf[k] # PathOf[result.key]

-----------------------------------------------------------------------------
(* Properties of the fetch time of the rows, over SpecRuns *)

\* the rows a run of the job wrote that the store did not hold before
RowsWritten == IF JobCompleted THEN rows \ result.before.rows ELSE {}

\* the times at which the run or the cache it started with fetched a payload
\* of the printing of row r: the time of a lookup of the run, or the stamp of a
\* record of the printing in the cache the run found
FetchTimes(r) ==
    { result.at + Elapsed(result.waits, i) :
        i \in { j \in 1..Len(result.resolves) : IdOf(result.resolves[j]) = r.scryfall_id } }
    \cup { Val(result.before.cache[f].data._fetched_at_epoch) :
            f \in { g \in Files : /\ result.before.cache[g].kind = "object"
                                  /\ result.before.cache[g].data.id = r.scryfall_id } }

\* C26: every row a run of the snapshot job wrote has a fetch time, the time
\* its payload was fetched from the catalog, be it by a lookup of the run or by
\* the lookup that left the record the run hit
C26_RowsCarryFetchTime ==
    \A r \in RowsWritten :
        /\ ~IsNull(r.fetched_at_epoch)
        /\ Val(r.fetched_at_epoch) \in FetchTimes(r)

-----------------------------------------------------------------------------
(* Properties of an aborted run of the snapshot job, over SpecRuns *)

\* a run of the snapshot job has just ended at a failed lookup
JobAborted == result.op = "snapshot_prices" /\ result.raised

\* C27: a run of the snapshot job that a failed lookup ends persists none of
\* the rows it upserted before: the store holds the rows it held when the run
\* started
C27_AbortedJobPersistsNoRow ==
    JobAborted => rows = result.before.rows

\* C27 witness: a run was aborted at its second lookup, after the first had
\* been answered and its row upserted, on a store that held rows already
C27_Witness_AbortedAfterUpsert ==
    /\ JobAborted
    /\ Len(result.resolves) >= 2
    /\ Len(result.lookups) >= 2
    /\ cache # result.before.cache
    /\ rows # {}

-----------------------------------------------------------------------------
(* Properties of the snapshot valuation of the stores the job leaves, over  *)
(* SpecRuns                                                                  *)

\* the holdings get_dashboard_data(live_prices=False) values on the store
SnapshotHoldings == SnapshotOwned(OwnedOf(collection), rows, Val(MaxDate(rows)))

\* C28: on every store that runs of the snapshot job leave, snapshot mode joins
\* each row of the collection to at most one row of the latest snapshot: the
\* position count is at most the number of rows of the collection
C28_OneValuedRowPerPosition ==
    rows # {} =>
        /\ Len(SnapshotHoldings) <= Len(collection)
        /\ \A i \in 1..Len(collection) : Cardinality(LatestRowsFor(collection[i])) <= 1

-----------------------------------------------------------------------------
(* Properties of the time series against the snapshot valuation, over       *)
(* SpecViews                                                                 *)

\* get_dashboard_data(live_prices=False) returned its bundle
SnapshotBundleReturned == BundleReturned /\ ~result.live_prices

\* the points of the time series of the bundle for the latest snapshot date
LatestPoints ==
    { i \in 1..Len(result.out.portfolio_ts) :
        result.out.portfolio_ts[i].snapshot_date = Val(result.out.latest_snapshot) }

\* C29: the point the time series has for the latest snapshot date, when it
\* has one, has the total value that the snapshot valuation of the same
\* collection on the same store reports
C29_LatestPointIsSnapshotTotal ==
    SnapshotBundleReturned =>
        \A i \in LatestPoints :
            result.out.portfolio_ts[i].total_value_usd = result.out.total_value_usd

\* C29 witness: the series has a point for the latest date and one of another
\* value for an earlier date, the holdings having a position with no price
C29_Witness_LatestPointAmongTwo ==
    /\ SnapshotBundleReturned
    /\ Len(result.out.portfolio_ts) = 2
    /\ LatestPoints = {2}
    /\ result.out.portfolio_ts[2].total_value_usd > 0
    /\ result.out.portfolio_ts[1].total_value_usd # result.out.portfolio_ts[2].total_value_usd
    /\ \E i \in 1..Len(result.out.latest_owned) : IsNull(result.out.latest_owned[i].usd)

-----------------------------------------------------------------------------
(* Specification SpecClone: dev_clone_snapshot.py run, and run again, on a  *)
(* store that holds the snapshot of one date                                 *)

\* the stores the tool starts from: one snapshot, of date LatestDate, of one or
\* two positions
CloneStores ==
    { { StoredRow(LatestDate, e[1], e[2], Some(1)) : e \in held } :
        held \in (SUBSET Slots) \ {{}} }

InitClone ==
    /\ cache = [f \in Files |-> Absent]
    /\ now = 0
    /\ table = TRUE
    /\ rows \in CloneStores
    /\ collection = <<>>
    /\ result = [op |-> "none", runs |-> 0]

\* one run of dev_clone_snapshot.py, ans and the rest typed at its prompts
CloneRun(ans, scryfall_id, finish, new_usd) ==
    LET r == dev_clone_snapshot_main(table, rows, ans, scryfall_id, finish, new_usd)
    IN  /\ result.runs < MaxRuns
        /\ rows' = r.rows
        /\ result' = [op |-> "dev_clone_snapshot", runs |-> result.runs + 1,
                      raised |-> r.raised, ans |-> ans, scryfall_id |-> scryfall_id,
                      finish |-> finish, before |-> rows]
        /\ UNCHANGED <<cache, now, table, collection>>

NextClone ==
    \/ \E scryfall_id \in Ids, finish \in Finishes, new_usd \in OverridePrices :
            CloneRun("y", scryfall_id, finish, new_usd)
    \/ CloneRun("n", "", "", 0)

SpecClone == InitClone /\ [][NextClone]_vars

\* the date the tool clones to: the day before the latest snapshot it found
CloneDst == Val(MaxDate(result.before)) - 1

\* the row the override of the run was aimed at
Overridden(r) ==
    /\ result.ans = "y"
    /\ r.scryfall_id = result.scryfall_id
    /\ r.finish = result.finish

\* C30: a run of the clone tool that finds a snapshot of the destination date
\* leaves every row of that date as it was, a price overridden there by an
\* earlier run too; only the row its own override is aimed at may change
C30_CloneSkippedWhenDstExists ==
    (/\ result.op = "dev_clone_snapshot"
     /\ ~result.raised
     /\ snapshot_exists(result.before, CloneDst)) =>
        /\ \A r \in RowsOn(result.before, CloneDst) : r \in rows \/ Overridden(r)
        /\ \A r \in RowsOn(rows, CloneDst) : r \in result.before \/ Overridden(r)

====
